---- MODULE Spec2Model ----
(***************************************************************************)
(* Autosizer proxy (coder-ashman/ollama): the request pipeline of          *)
(* handle_model_request (choose_caps, maybe_downgrade_model,               *)
(* extract_client_options, clamp_options, compute_trim_config), the        *)
(* boundary finisher (trim_to_boundary) and the one-line-lookahead         *)
(* streaming transformer stream_upstream.gen.                              *)
(*                                                                         *)
(* Texts are sequences of one-character strings.  The three CJK sentence   *)
(* marks and the backtick are written by their code points ("U+3002",     *)
(* "U+FF01", "U+FF1F", "U+0060").                                          *)
(***************************************************************************)
EXTENDS Integers, Sequences, FiniteSets, TLC

VARIABLES
    \* ---- stream_upstream / gen (proxy.py 29-121) ----
    pc,                  \* position of the response generator
    conn,                \* the upstream connection r: "none" | "open" | "closed"
    n_requests,          \* calls of requests.request made by stream_upstream
    received,            \* lines r.iter_lines has delivered so far
    raw_line,            \* loop variable of gen
    pending_bytes,       \* the held line (NoLine = None)
    pending_parsed,      \* its parsed form (NoLine = None)
    full_response_parts, \* accumulator of "response" pieces
    out,                 \* what gen has yielded so far
    exc,                 \* exception that ended gen ("" = none)
    \* ---- handle_model_request (proxy.py 171-218) ----
    rpc,                 \* position in handle_model_request
    request,             \* the inbound request as the client sent it
    body,                \* the request body, a dict the handler mutates
    chosen,              \* result of choose_caps
    client_opts,         \* result of extract_client_options
    final_opts,          \* result of clamp_options (+ tail allowance)
    trim_config,         \* result of compute_trim_config
    sent,                \* the outbound request dispatched upstream
    config,              \* the startup configuration (config.py 17-38)
    \* ---- finishers (finishers.py 30-134, proxy.py 146-163) ----
    fpc,                 \* position in nonstream_upstream / number of calls made
    fin_text,            \* the text a finisher is called on
    applied,             \* the results of the successive calls on it
    payload,             \* the upstream JSON payload, a dict the finishers mutate
    fin_config,          \* the trim_config handed to nonstream_upstream
    modified,            \* nonstream_upstream: modified
    r_content,           \* the upstream response body as received
    payload_bytes,       \* the body of the response returned to the client
    \* ---- concurrent requests over the shared preset catalog ----
    heap,                \* the dict and list objects: name -> contents
    th,                  \* per request context: position, input, references held
    accesses             \* <<context, object, "r" | "w">> for every access made

streamVars == <<pc, conn, n_requests, received, raw_line, pending_bytes,
                pending_parsed, full_response_parts, out, exc>>
reqVars == <<rpc, request, body, chosen, client_opts, final_opts, trim_config, sent, config>>
finVars == <<fpc, fin_text, applied, payload, fin_config, modified, r_content,
             payload_bytes>>
concVars == <<heap, th, accesses>>
vars == <<streamVars, reqVars, finVars, concVars>>

(***************************************************************************)
(* Bounds of the model                                                     *)
(***************************************************************************)
MaxLines == 3

(***************************************************************************)
(* Small helpers                                                           *)
(***************************************************************************)
Min(S) == CHOOSE x \in S : \A y \in S : x <= y
Max(S) == CHOOSE x \in S : \A y \in S : x >= y
min2(a, b) == IF a <= b THEN a ELSE b
max2(a, b) == IF a >= b THEN a ELSE b

(***************************************************************************)
(* Python str operations used by the finishers                             *)
(***************************************************************************)
WS == {" ", "\n", "\t"}
SENT_PUNCT == {".", "!", "?", "U+3002", "U+FF01", "U+FF1F"}
CLOSERS == {")", "]", "'", "\""}
\* the iteration order of  for punct in ".?!" + the CJK marks
PUNCT_ORDER == <<".", "?", "!", "U+3002", "U+FF01", "U+FF1F">>
\* the fenced-code marker: three backticks (U+0060)
FENCE == <<"U+0060", "U+0060", "U+0060">>
BLANKLINE == <<"\n", "\n">>
ELLIPSIS == <<" ", ".", ".", ".">>

RECURSIVE rstrip(_)
rstrip(s) ==
    IF s = <<>> \/ s[Len(s)] \notin WS THEN s
    ELSE rstrip(SubSeq(s, 1, Len(s) - 1))

RECURSIVE lstrip(_)
lstrip(s) ==
    IF s = <<>> \/ s[1] \notin WS THEN s
    ELSE lstrip(SubSeq(s, 2, Len(s)))

strip(s) == lstrip(rstrip(s))

\* str.find / str.rfind: 0-based index of the first / last occurrence, or -1
find(s, m) ==
    LET I == {i \in 0..(Len(s) - Len(m)) : SubSeq(s, i + 1, i + Len(m)) = m}
    IN  IF I = {} THEN -1 ELSE Min(I)

rfind(s, m) ==
    LET I == {i \in 0..(Len(s) - Len(m)) : SubSeq(s, i + 1, i + Len(m)) = m}
    IN  IF I = {} THEN -1 ELSE Max(I)

startswith(s, p) == Len(p) <= Len(s) /\ SubSeq(s, 1, Len(p)) = p

\* s[:k]
prefix(s, k) == SubSeq(s, 1, min2(max2(k, 0), Len(s)))
\* s[k:]
suffixFrom(s, k) == SubSeq(s, min2(k, Len(s)) + 1, Len(s))

\* END_PUNCT: ".", "?", "!", the three CJK marks and "..."; str.endswith(END_PUNCT)
endswith_END_PUNCT(s) ==
    \/ (s # <<>> /\ s[Len(s)] \in SENT_PUNCT)
    \/ (Len(s) >= 3 /\ SubSeq(s, Len(s) - 2, Len(s)) = <<".", ".", ".">>)

RECURSIVE join(_)
join(parts) == IF parts = <<>> THEN <<>> ELSE Head(parts) \o join(Tail(parts))

(***************************************************************************)
(* BOUNDARY_PUNCT (finishers.py 12): (PUNCT+ CLOSER?) \s* $                  *)
(* A match starting at position i (1-based): the maximal run of sentence   *)
(* punctuation from i, at most one closing bracket or quote, then only     *)
(* whitespace up to the end.  re.search returns the left-most match;       *)
(* BOUNDARY_PUNCT_end1 is match.end(1) of it, or -1 when nothing matches.  *)
(***************************************************************************)
RECURSIVE punctRunEnd(_, _)
punctRunEnd(t, i) ==
    IF i < Len(t) /\ t[i + 1] \in SENT_PUNCT THEN punctRunEnd(t, i + 1) ELSE i

group1End(t, i) ==
    LET j == punctRunEnd(t, i)
    IN  IF j < Len(t) /\ t[j + 1] \in CLOSERS THEN j + 1 ELSE j

matchesAt(t, i) ==
    /\ t[i] \in SENT_PUNCT
    /\ \A k \in (group1End(t, i) + 1)..Len(t) : t[k] \in WS

BOUNDARY_PUNCT_end1(t) ==
    LET I == {i \in 1..Len(t) : matchesAt(t, i)}
    IN  IF I = {} THEN -1 ELSE group1End(t, Min(I))

\* for punct in (".?!" + the CJK marks): idx = text.rfind(punct); if idx != -1: return ...
\* the index found for the first punctuation kind, in loop order, that occurs
RECURSIVE firstKindRfind(_, _)
firstKindRfind(t, k) ==
    IF k > Len(PUNCT_ORDER) THEN -1
    ELSE IF rfind(t, <<PUNCT_ORDER[k]>>) # -1 THEN rfind(t, <<PUNCT_ORDER[k]>>)
    ELSE firstKindRfind(t, k + 1)

\* for marker in (FENCE, BLANKLINE): idx = text.find(marker); if idx != -1: return
markerCut(t) ==
    IF find(t, FENCE) # -1 THEN find(t, FENCE)
    ELSE find(t, BLANKLINE)

trim_to_boundary(text) ==
    LET t == rstrip(text)
    IN  IF t = <<>> THEN t
        ELSE IF markerCut(t) # -1 THEN
            (IF rstrip(prefix(t, markerCut(t))) # <<>>
             THEN rstrip(prefix(t, markerCut(t))) ELSE t)
        ELSE IF BOUNDARY_PUNCT_end1(t) # -1 THEN
            rstrip(prefix(t, BOUNDARY_PUNCT_end1(t)))
        ELSE IF firstKindRfind(t, 1) # -1 THEN
            rstrip(prefix(t, firstKindRfind(t, 1) + 1))
        ELSE t

(***************************************************************************)
(* Upstream NDJSON lines as r.iter_lines delivers them.                    *)
(*   kind "obj"     : json.loads gives a dict                              *)
(*   kind "nondict" : json.loads gives a list, string, number or null      *)
(*   kind "bad"     : json.loads raises (garbage, or an empty line)        *)
(* Absent marks a key that is missing or whose value is not a string.      *)
(***************************************************************************)
Absent == <<"<absent>">>

Obj(resp, done, reason, content, model) ==
    [kind |-> "obj", raw |-> "", response |-> resp, done |-> done,
     done_reason |-> reason, content |-> content, model |-> model]
BadLine(raw) ==
    [kind |-> "bad", raw |-> raw, response |-> Absent, done |-> FALSE,
     done_reason |-> "", content |-> Absent, model |-> ""]
NonDictLine(raw) ==
    [kind |-> "nondict", raw |-> raw, response |-> Absent, done |-> FALSE,
     done_reason |-> "", content |-> Absent, model |-> ""]
\* None, for pending_bytes / pending_parsed / raw_line
NoLine ==
    [kind |-> "none", raw |-> "", response |-> Absent, done |-> FALSE,
     done_reason |-> "", content |-> Absent, model |-> ""]

\* response fragments the upstream sends
Fragments ==
    { <<>>, <<"a">>, <<"a", ".">>, <<" ", "b">>, <<"b", " ">>, <<"\n", "\n">> }

\* /api/generate events, /api/chat events, events with done = true, and
\* lines that are no JSON object
GenerateEvents == {Obj(f, FALSE, "", Absent, "m") : f \in Fragments}
ChatEvents     == {Obj(Absent, FALSE, "", <<"a", ".", " ", "b">>, "m")}
TerminalEvents ==
    {Obj(f, TRUE, "length", Absent, "m") : f \in {Absent, <<"a">>, <<".">>}}
    \cup {Obj(f, TRUE, "stop", Absent, "m") : f \in {Absent, <<"a">>}}
    \cup {Obj(<<>>, TRUE, "length", <<"b">>, "")}
    \cup {Obj(Absent, TRUE, "length", <<>>, "m")}
    \cup {Obj(<<"a">>, FALSE, "length", Absent, "m")}
OtherLines == {BadLine("garbage"), BadLine(""), NonDictLine("[1]")}

UpstreamLines == GenerateEvents \cup ChatEvents \cup TerminalEvents \cup OtherLines

\* json.loads(raw_line): the dict, or None (NoLine) when json.loads raises
json_loads(line) == IF line.kind = "bad" THEN NoLine ELSE line

\* isinstance(pending_parsed, dict) and pending_parsed.get("done")
\*   and pending_parsed.get("done_reason") == "length"       (proxy.py 71)
is_length_terminal(parsed) ==
    parsed.kind = "obj" /\ parsed.done /\ parsed.done_reason = "length"

(***************************************************************************)
(* The repair of gen at end-of-stream (proxy.py 72-109), as functions of   *)
(* the accumulator and of the held terminal event.                         *)
(***************************************************************************)
\* proxy.py 72-80
cleaned_text(full_text) ==
    LET c0 == strip(full_text)
        bounded == trim_to_boundary(c0)
        c1 == IF bounded # <<>> THEN strip(bounded) ELSE c0
        c2 == IF c1 = <<>> THEN strip(full_text) ELSE c1
    IN  IF c2 # <<>> /\ ~endswith_END_PUNCT(c2) THEN c2 \o ELLIPSIS ELSE c2

\* proxy.py 82-83
original_piece(parsed) ==
    IF parsed.response # Absent THEN parsed.response ELSE <<>>

\* proxy.py 85-87
tail_text(full_text) ==
    IF startswith(cleaned_text(full_text), full_text)
    THEN suffixFrom(cleaned_text(full_text), Len(full_text))
    ELSE <<>>

\* faulty variant: the tail event is built from the computed tail alone
combined_piece_tailOnly(parsed, full_text) == tail_text(full_text)

\* proxy.py 89
combined_piece(parsed, full_text) ==
    original_piece(parsed) \o tail_text(full_text)

\* faulty variant: the tail event copies the terminal event's done flag
tail_chunk_copiesDone(parsed, full_text) ==
    Obj(combined_piece(parsed, full_text), parsed.done, "", Absent, parsed.model)

\* proxy.py 92-99: {"response": combined_piece, "done": False} + copied metadata
tail_chunk(parsed, full_text) ==
    Obj(combined_piece(parsed, full_text), FALSE, "", Absent, parsed.model)

\* faulty variant: the terminal event keeps its own fragment (proxy.py 108 left out)
final_chunk_keepsResponse(parsed, full_text) ==
    [parsed EXCEPT !.content = IF parsed.content # Absent
                               THEN cleaned_text(full_text) ELSE Absent]

\* proxy.py 102-108
final_chunk(parsed, full_text) ==
    [parsed EXCEPT !.response = <<>>,
                   !.content = IF parsed.content # Absent
                               THEN cleaned_text(full_text) ELSE Absent]

\* one yielded item: the bytes (as a line) and where they came from
Emit(src, line) == [src |-> src, line |-> line]

(***************************************************************************)
(* stream_upstream and its generator gen (proxy.py 29-121).                *)
(* gen is pull-driven: it runs only inside next(), from one yield to the   *)
(* next, so the consumer can close it only while it is suspended at a      *)
(* yield or before it has started.  pc is the position of gen:             *)
(*   "idle"       stream_upstream not yet called                           *)
(*   "unstarted"  Response(stream_with_context(gen())) built, body not run *)
(*   "iter"       running, asking r.iter_lines for the next line           *)
(*   "yield55" "yield100" "yield109" "yield112"  suspended at that yield   *)
(*   "finished"   returned normally     "raised"  ended by an exception    *)
(*   "cancelled"  closed by the consumer                                   *)
(*   "connect_failed"  requests.request raised, no response was built      *)
(***************************************************************************)
StreamIdle ==
    /\ pc = "idle"
    /\ conn = "none"
    /\ n_requests = 0
    /\ received = <<>>
    /\ raw_line = NoLine
    /\ pending_bytes = NoLine
    /\ pending_parsed = NoLine
    /\ full_response_parts = <<>>
    /\ out = <<>>
    /\ exc = ""

ReqIdle ==
    /\ rpc = "idle"
    /\ request = <<>>
    /\ body = <<>>
    /\ chosen = <<>>
    /\ client_opts = <<>>
    /\ final_opts = <<>>
    /\ trim_config = <<>>
    /\ sent = <<>>
    /\ config = <<>>

FinIdle ==
    /\ fpc = "idle"
    /\ fin_text = <<>>
    /\ applied = <<>>
    /\ payload = <<>>
    /\ fin_config = <<>>
    /\ modified = FALSE
    /\ r_content = <<>>
    /\ payload_bytes = <<>>

ConcIdle ==
    /\ heap = <<>>
    /\ th = <<>>
    /\ accesses = {}

\* proxy.py 31-40, 116-121: one upstream request, the response wraps gen()
StreamUpstream ==
    /\ pc = "idle"
    /\ n_requests' = n_requests + 1
    /\ conn' = "open"
    /\ pc' = "unstarted"
    /\ UNCHANGED <<received, raw_line, pending_bytes, pending_parsed,
                   full_response_parts, out, exc>>

\* proxy.py 31-40: requests.request raises (connect failure or timeout)
ConnectFails ==
    /\ pc = "idle"
    /\ n_requests' = n_requests + 1
    /\ pc' = "connect_failed"
    /\ exc' = "upstream"
    /\ UNCHANGED <<conn, received, raw_line, pending_bytes, pending_parsed,
                   full_response_parts, out>>

\* the consumer's first next(): gen enters its try block (proxy.py 44-50)
Start ==
    /\ pc = "unstarted"
    /\ pc' = "iter"
    /\ UNCHANGED <<conn, n_requests, received, raw_line, pending_bytes,
                   pending_parsed, full_response_parts, out, exc>>

\* faulty variant: pending_parsed is not reset (proxy.py 58 left out), so a line that
\* fails to parse inherits the parse of the line before it
Hold_noReset(line) ==
    /\ pending_bytes' = line
    /\ IF line.kind = "nondict"
       THEN /\ pending_parsed' = line
            /\ pc' = "raised"
            /\ exc' = "AttributeError"
            /\ conn' = "closed"
            /\ UNCHANGED full_response_parts
       ELSE /\ pending_parsed' = IF line.kind = "bad" THEN pending_parsed ELSE line
            /\ full_response_parts' =
                  IF json_loads(line) # NoLine /\ line.response # Absent
                  THEN Append(full_response_parts, line.response)
                  ELSE full_response_parts
            /\ pc' = "iter"
            /\ UNCHANGED <<exc, conn>>

\* faulty variant: a line already held is kept (proxy.py 57 only assigns when
\* nothing is held), the new line is parsed but not stored
Hold_keepsOld(line) ==
    /\ pending_bytes' = IF pending_bytes = NoLine THEN line ELSE pending_bytes
    /\ IF line.kind = "nondict"
       THEN /\ pending_parsed' = line
            /\ pc' = "raised"
            /\ exc' = "AttributeError"
            /\ conn' = "closed"
            /\ UNCHANGED full_response_parts
       ELSE /\ pending_parsed' = json_loads(line)
            /\ full_response_parts' =
                  IF json_loads(line) # NoLine /\ line.response # Absent
                  THEN Append(full_response_parts, line.response)
                  ELSE full_response_parts
            /\ pc' = "iter"
            /\ UNCHANGED <<exc, conn>>

\* proxy.py 57-68: hold the line, parse it, accumulate its "response" piece.
\* parsed.get on a value that is no dict raises AttributeError outside the
\* inner try; the finally clause (proxy.py 113-114) closes r.
Hold(line) ==
    /\ pending_bytes' = line
    /\ IF line.kind = "nondict"
       THEN /\ pending_parsed' = line
            /\ pc' = "raised"
            /\ exc' = "AttributeError"
            /\ conn' = "closed"
            /\ UNCHANGED full_response_parts
       ELSE /\ pending_parsed' = json_loads(line)
            /\ full_response_parts' =
                  IF json_loads(line) # NoLine /\ line.response # Absent
                  THEN Append(full_response_parts, line.response)
                  ELSE full_response_parts
            /\ pc' = "iter"
            /\ UNCHANGED <<exc, conn>>

\* proxy.py 50-58: the loop body up to the first yield, for the line that
\* r.iter_lines delivered
Deliver(line) ==
    /\ received' = Append(received, line)
    /\ raw_line' = line
    /\ IF pending_bytes # NoLine
       THEN /\ out' = Append(out, Emit("forward", pending_bytes))
            /\ pc' = "yield55"
            /\ UNCHANGED <<pending_bytes, pending_parsed,
                           full_response_parts, exc, conn>>
       ELSE /\ Hold(line)
            /\ UNCHANGED out
    /\ UNCHANGED n_requests

\* proxy.py 50-58: r.iter_lines delivers a line
IterLine ==
    /\ pc = "iter"
    /\ Len(received) < MaxLines
    /\ \E line \in UpstreamLines : Deliver(line)

\* next() resumes gen after the yield of proxy.py 55
Resume55 ==
    /\ pc = "yield55"
    /\ Hold(raw_line)
    /\ UNCHANGED <<n_requests, received, raw_line, out>>

\* proxy.py 70-112: r.iter_lines is exhausted
IterEnd ==
    /\ pc = "iter"
    /\ IF pending_bytes = NoLine
       THEN /\ pc' = "finished"
            /\ conn' = "closed"
            /\ UNCHANGED out
       ELSE IF is_length_terminal(pending_parsed)
       THEN IF combined_piece(pending_parsed, join(full_response_parts)) # <<>>
            THEN /\ out' = Append(out, Emit("tail",
                        tail_chunk(pending_parsed, join(full_response_parts))))
                 /\ pc' = "yield100"
                 /\ UNCHANGED conn
            ELSE /\ out' = Append(out, Emit("final",
                        final_chunk(pending_parsed, join(full_response_parts))))
                 /\ pc' = "yield109"
                 /\ UNCHANGED conn
       ELSE /\ out' = Append(out, Emit("forward", pending_bytes))
            /\ pc' = "yield112"
            /\ UNCHANGED conn
    /\ UNCHANGED <<n_requests, received, raw_line, pending_bytes,
                   pending_parsed, full_response_parts, exc>>

\* next() resumes gen after the yield of proxy.py 100
Resume100 ==
    /\ pc = "yield100"
    /\ out' = Append(out, Emit("final",
                 final_chunk(pending_parsed, join(full_response_parts))))
    /\ pc' = "yield109"
    /\ UNCHANGED <<conn, n_requests, received, raw_line, pending_bytes,
                   pending_parsed, full_response_parts, exc>>

\* next() resumes gen after its last yield (proxy.py 109 or 112): finally, return
ResumeLast ==
    /\ pc \in {"yield109", "yield112"}
    /\ pc' = "finished"
    /\ conn' = "closed"
    /\ UNCHANGED <<n_requests, received, raw_line, pending_bytes,
                   pending_parsed, full_response_parts, out, exc>>

\* proxy.py 50, 113-114: r.iter_lines raises (connection reset, read timeout);
\* the exception leaves the try block through finally and ends gen
IterError ==
    /\ pc = "iter"
    /\ exc' = "upstream"
    /\ pc' = "raised"
    /\ conn' = "closed"
    /\ UNCHANGED <<n_requests, received, raw_line, pending_bytes,
                   pending_parsed, full_response_parts, out>>

\* the client goes away and the server closes the response iterator.
\* Suspended at a yield, gen gets GeneratorExit there and runs finally
\* (proxy.py 113-114); a generator that never started has no frame inside
\* the try block, so close() just marks it finished and finally never runs.
Disconnect ==
    /\ pc \in {"unstarted", "yield55", "yield100", "yield109", "yield112"}
    /\ pc' = "cancelled"
    /\ IF pc = "unstarted"
       THEN UNCHANGED <<conn, exc>>
       ELSE conn' = "closed" /\ exc' = "GeneratorExit"
    /\ UNCHANGED <<n_requests, received, raw_line, pending_bytes,
                   pending_parsed, full_response_parts, out>>

Init == StreamIdle /\ ReqIdle /\ FinIdle /\ ConcIdle

Next ==
    \/ (StreamUpstream /\ UNCHANGED <<reqVars, finVars, concVars>>)
    \/ (ConnectFails /\ UNCHANGED <<reqVars, finVars, concVars>>)
    \/ (Start /\ UNCHANGED <<reqVars, finVars, concVars>>)
    \/ (IterLine /\ UNCHANGED <<reqVars, finVars, concVars>>)
    \/ (Resume55 /\ UNCHANGED <<reqVars, finVars, concVars>>)
    \/ (IterEnd /\ UNCHANGED <<reqVars, finVars, concVars>>)
    \/ (Resume100 /\ UNCHANGED <<reqVars, finVars, concVars>>)
    \/ (ResumeLast /\ UNCHANGED <<reqVars, finVars, concVars>>)
    \/ (IterError /\ UNCHANGED <<reqVars, finVars, concVars>>)
    \/ (Disconnect /\ UNCHANGED <<reqVars, finVars, concVars>>)

Spec == Init /\ [][Next]_vars

(***************************************************************************)
(* Observations on the streaming transformer used by the properties        *)
(***************************************************************************)
\* the "response" fragment an emitted or received line carries ("" if none)
piece_of(line) ==
    IF line.kind = "obj" /\ line.response # Absent THEN line.response ELSE <<>>

RECURSIVE pieces(_)
pieces(lines) ==
    IF lines = <<>> THEN <<>> ELSE piece_of(Head(lines)) \o pieces(Tail(lines))

\* concatenation, in emission order, of the response fragments gen emitted
EmittedText == pieces([i \in 1..Len(out) |-> out[i].line])
\* concatenation of the response fragments the upstream sent
UpstreamText == pieces(received)

LastReceived == received[Len(received)]

\* gen ran to its normal end on a stream whose last line is a parseable
\* event with done=true and done_reason="length"
LengthRepaired ==
    /\ pc = "finished"
    /\ received # <<>>
    /\ is_length_terminal(LastReceived)

Forwarded == SelectSeq(out, LAMBDA item : item.src = "forward")
TailPositions == {i \in 1..Len(out) : out[i].src = "tail"}
FinalPositions == {i \in 1..Len(out) : out[i].src = "final"}

(***************************************************************************)
(* C1 (as claimed): when the stream ends with a done=true,                 *)
(* done_reason="length" event, the concatenation of all emitted response   *)
(* fragments equals trim_to_boundary of the concatenated upstream          *)
(* fragments.                                                              *)
(***************************************************************************)
C1_Claimed ==
    LengthRepaired => EmittedText = trim_to_boundary(UpstreamText)

(***************************************************************************)
(* C1 (amended): the emitted fragments concatenate to the whole upstream   *)
(* text, never shortened, extended to the cleaned text (trimmed text plus  *)
(* the " ..." marker when it does not end in terminal punctuation) exactly *)
(* when the cleaned text begins with the upstream text.                    *)
(***************************************************************************)
C1_EmittedText ==
    LengthRepaired =>
        /\ startswith(EmittedText, UpstreamText)
        /\ EmittedText =
              IF startswith(cleaned_text(UpstreamText), UpstreamText)
              THEN cleaned_text(UpstreamText)
              ELSE UpstreamText

\* a repaired stream whose full text the boundary trim would shorten
C1_Witness ==
    /\ LengthRepaired
    /\ Len(received) >= 2
    /\ trim_to_boundary(UpstreamText) # UpstreamText
    /\ Len(trim_to_boundary(UpstreamText)) < Len(rstrip(UpstreamText))

(***************************************************************************)
(* C2: forwarded lines keep the upstream order; a synthesized tail event   *)
(* is emitted at most once, carries done=false, and is directly followed   *)
(* by the repaired terminal event, which is the last line emitted.         *)
(***************************************************************************)
C2_Ordering ==
    /\ \A i \in 1..Len(Forwarded) :
          i <= Len(received) /\ Forwarded[i].line = received[i]
    /\ Cardinality(TailPositions) <= 1
    /\ Cardinality(FinalPositions) <= 1
    /\ \A i \in TailPositions :
          /\ out[i].line.done = FALSE
          /\ i = Len(received)
          /\ \A j \in 1..(i - 1) : out[j].src = "forward"
          /\ IF i = Len(out) THEN pc \in {"yield100", "cancelled"}
             ELSE i + 1 = Len(out) /\ out[i + 1].src = "final"
    /\ \A i \in FinalPositions :
          /\ i = Len(out)
          /\ \A j \in 1..(i - 1) : out[j].src = "forward" \/ j = i - 1
          /\ is_length_terminal(LastReceived)
          /\ out[i].line.done /\ out[i].line.done_reason = "length"
    /\ (pc = "finished" /\ TailPositions # {}) => out[Len(out)].src = "final"

C2_Witness ==
    /\ pc = "finished"
    /\ Len(out) = 4
    /\ out[3].src = "tail"
    /\ out[4].src = "final"
    /\ out[1].line # out[2].line

(***************************************************************************)
(* C3 (as claimed): a stream of N lines ending in a length-truncated       *)
(* terminal event yields N+1 lines when the computed tail is non-empty     *)
(* and N lines when it is empty.                                           *)
(***************************************************************************)
C3_Claimed ==
    LengthRepaired =>
        Len(out) = IF tail_text(UpstreamText) # <<>>
                   THEN Len(received) + 1 ELSE Len(received)

(***************************************************************************)
(* C3 (amended): N+1 lines when the computed tail or the terminal event's  *)
(* own response fragment is non-empty, N lines when both are empty.        *)
(***************************************************************************)
C3_LineCount ==
    LengthRepaired =>
        Len(out) = IF tail_text(UpstreamText) # <<>> \/ piece_of(LastReceived) # <<>>
                   THEN Len(received) + 1 ELSE Len(received)

\* the terminal event carries a fragment of its own and the tail is empty
C3_Witness ==
    /\ LengthRepaired
    /\ tail_text(UpstreamText) = <<>>
    /\ piece_of(LastReceived) # <<>>
    /\ Len(out) = Len(received) + 1

(***************************************************************************)
(* C4 (as claimed): when reading from upstream raises while a line is      *)
(* held, the held line is still forwarded before the stream closes, and    *)
(* no second upstream request is made.                                     *)
(***************************************************************************)
C4_Claimed ==
    /\ n_requests <= 1
    /\ (pc = "raised" /\ exc = "upstream" /\ pending_bytes # NoLine) =>
          /\ out # <<>>
          /\ out[Len(out)].line = pending_bytes
          /\ Len(out) = Len(received)

(***************************************************************************)
(* C5 (as claimed): once the upstream connection was opened it is closed   *)
(* when the streaming response ends, on every exit path: normal end, an    *)
(* upstream error, a client disconnect at any point.                       *)
(***************************************************************************)
C5_Claimed ==
    (n_requests > 0 /\ pc \in {"finished", "raised", "cancelled"}) => conn = "closed"

(***************************************************************************)
(* C7: a line that json.loads rejects adds nothing to the accumulator, is  *)
(* forwarded unchanged in its place once the next line (or the end of the  *)
(* stream) arrives, and as last line is emitted as is: no tail event, no   *)
(* rewritten terminal event.                                               *)
(***************************************************************************)
\* the lines gen has stored so far (the one in hand at yield55 not yet)
HeldLines ==
    IF pc = "yield55" THEN SubSeq(received, 1, Len(received) - 1) ELSE received

C7_ParseDrift ==
    /\ pc # "cancelled" => full_response_parts =
          [i \in 1..Len(SelectSeq(HeldLines,
                 LAMBDA l : l.kind = "obj" /\ l.response # Absent)) |->
              SelectSeq(HeldLines,
                 LAMBDA l : l.kind = "obj" /\ l.response # Absent)[i].response]
    /\ \A i \in 1..Len(received) :
          received[i].kind = "bad" =>
             /\ i <= Len(out) => out[i] = Emit("forward", received[i])
             /\ (i = Len(received) /\ pc \in {"yield112", "finished"}) =>
                   /\ Len(out) = Len(received)
                   /\ out[i] = Emit("forward", received[i])
                   /\ TailPositions = {} /\ FinalPositions = {}
             /\ (i = Len(received) /\ pc \in {"iter", "yield55"}) => Len(out) < i

\* an unparseable last line right after a length-truncated terminal event
C7_Witness ==
    /\ pc = "finished"
    /\ Len(received) = 3
    /\ received[3].kind = "bad"
    /\ is_length_terminal(received[2])
    /\ piece_of(received[1]) # <<>>
    /\ out[3] = Emit("forward", received[3])

(***************************************************************************)
(* JSON values of the numeric option fields.                               *)
(*   k = "missing" : the key is not in the map     k = "null" : JSON null  *)
(*   k = "int"     : a JSON integer v                                      *)
(*   k = "str"     : a string holding the decimal integer v, e.g. "120"    *)
(*   k = "junk"    : anything int() rejects ("abc", a list, an object)     *)
(***************************************************************************)
Missing == [k |-> "missing", v |-> 0]
Null    == [k |-> "null", v |-> 0]
Int_(n) == [k |-> "int", v |-> n]
Str_(n) == [k |-> "str", v |-> n]
Junk    == [k |-> "junk", v |-> 0]

INF == 1000000000

\* dict.get(key): None for a missing key
get(val) == IF val.k = "missing" THEN Null ELSE val

\* int(val) raises ValueError / TypeError on junk
int_raises(val) == val.k \notin {"int", "str"}

\* faulty variant: the except clause is missing, int() failures escape
safe_int_noExcept(val, default) ==
    IF val.k \in {"missing", "null"} THEN [raised |-> FALSE, none |-> default.none, v |-> default.v]
    ELSE IF int_raises(val) THEN [raised |-> TRUE, none |-> FALSE, v |-> 0]
    ELSE [raised |-> FALSE, none |-> FALSE, v |-> val.v]

\* caps.py 102-108.  default is [none |-> TRUE] for None or an integer;
\* the result says whether an exception escaped (never), whether it is None,
\* and its integer value.
safe_int(val, default) ==
    IF val.k \in {"missing", "null"} THEN [raised |-> FALSE, none |-> default.none, v |-> default.v]
    ELSE IF int_raises(val) THEN [raised |-> FALSE, none |-> default.none, v |-> default.v]
    ELSE [raised |-> FALSE, none |-> FALSE, v |-> val.v]

DefaultNone == [none |-> TRUE, v |-> 0]
DefaultInt(n) == [none |-> FALSE, v |-> n]

(***************************************************************************)
(* config.py 17-38: presets and thresholds                                 *)
(***************************************************************************)
SHORT_MAX == 12
NORMAL_MAX == 60
NoStop == <<"<missing>">>
IM_END == <<"<|im_end|>">>
CAP_SHORT ==
    [num_predict |-> Int_(160), num_ctx |-> Int_(1024), temperature |-> "0.6",
     repeat_penalty |-> "1.2", stop |-> IM_END, _mode |-> ""]
CAP_NORMAL ==
    [num_predict |-> Int_(384), num_ctx |-> Int_(2048), temperature |-> "0.7",
     repeat_penalty |-> "1.2", stop |-> IM_END, _mode |-> ""]
CAP_DEEP ==
    [num_predict |-> Int_(768), num_ctx |-> Int_(2048), temperature |-> "0.7",
     repeat_penalty |-> "1.1", stop |-> NoStop, _mode |-> ""]
\* TAIL_TOKENS, SHORT_SENTENCES, CHARS_PER_TOKEN (in tenths), MODEL_DOWNGRADE
DefaultConfig ==
    [TAIL_TOKENS |-> 0, SHORT_SENTENCES |-> 2, CHARS_PER_TOKEN10 |-> 40,
     MODEL_DOWNGRADE |-> TRUE]
\* the abbreviated FALLBACK_7B model id
FALLBACK_7B == <<"q", "-", "7", "b">>

(***************************************************************************)
(* caps.py 18-99: the prompt classifier                                    *)
(* An excerpt is a sequence of words, a word a sequence of characters.     *)
(***************************************************************************)
DETAIL_KEYWORDS ==
    { <<"e","x","a","m","p","l","e">>, <<"e","x","a","m","p","l","e","s">>,
      <<"c","o","m","p","a","r","e">>, <<"c","o","m","p","a","r","i","s","o","n">>,
      <<"c","o","n","t","r","a","s","t">>, <<"a","d","v","a","n","t","a","g","e","s">>,
      <<"d","i","s","a","d","v","a","n","t","a","g","e","s">>,
      <<"b","e","n","e","f","i","t","s">>, <<"b","e","s","t">>, <<"p","r","o","s">>,
      <<"c","o","n","s">>, <<"e","x","p","l","a","i","n">>,
      <<"e","x","p","l","a","n","a","t","i","o","n">>, <<"w","h","y">>, <<"h","o","w">>,
      <<"d","e","t","a","i","l","e","d">>, <<"d","e","t","a","i","l">>,
      <<"s","t","e","p","-","b","y","-","s","t","e","p">> }

\* str.lower on the letters the model uses
lower_char(c) ==
    CASE c = "W" -> "w" [] c = "H" -> "h" [] c = "Y" -> "y" [] c = "B" -> "b"
      [] OTHER -> c
lower(t) == [i \in 1..Len(t) |-> lower_char(t[i])]

\* keyword in text
contains(t, kw) == \E i \in 0..(Len(t) - Len(kw)) : SubSeq(t, i + 1, i + Len(kw)) = kw

\* the text of a sequence of words, single-spaced
RECURSIVE text_of(_)
text_of(words) ==
    IF words = <<>> THEN <<>>
    ELSE IF Len(words) = 1 THEN words[1]
    ELSE words[1] \o <<" ">> \o text_of(Tail(words))

\* str.split(): the whitespace-delimited words of a text
RECURSIVE split(_)
split(t) ==
    LET s == lstrip(t)
        ends == {i \in 1..Len(s) : s[i] \in WS}
        e == IF ends = {} THEN Len(s) + 1 ELSE Min(ends)
    IN  IF s = <<>> THEN <<>>
        ELSE <<SubSeq(s, 1, e - 1)>> \o split(SubSeq(s, e, Len(s)))

\* faulty variant: collections is not looked at
has_rag_noCollections(b) == b.files = "nonempty" \/ b.collection = "nonempty"

\* caps.py 40-41: a marker counts when its value is truthy
has_rag(b) ==
    b.files = "nonempty" \/ b.collection = "nonempty" \/ b.collections = "nonempty"

\* caps.py 44-47
_caps_with_mode(template, mode) == [template EXCEPT !._mode = mode]

\* caps.py 60-71: the last user message with non-blank content, else the
\* concatenation of all user contents
RECURSIVE last_user_content(_)
last_user_content(messages) ==
    IF messages = <<>> THEN <<>>
    ELSE IF messages[Len(messages)].role = "user"
            /\ strip(messages[Len(messages)].content) # <<>>
         THEN strip(messages[Len(messages)].content)
         ELSE last_user_content(SubSeq(messages, 1, Len(messages) - 1))

_chat_prompt_excerpt(messages) == last_user_content(messages)

\* caps.py 74-78
_prompt_excerpt(b) ==
    IF strip(b.prompt) # <<>> THEN strip(b.prompt)
    ELSE _chat_prompt_excerpt(b.messages)

\* caps.py 88-89
wants_detail(excerpt) == \E kw \in DETAIL_KEYWORDS : contains(lower(excerpt), kw)

\* faulty variant: the keyword promotes the short tier only
choose_caps_noPromoteNormal(b) ==
    LET excerpt == _prompt_excerpt(b)
        n == Len(split(excerpt))
    IN  IF has_rag(b) THEN _caps_with_mode(CAP_DEEP, "deep")
        ELSE IF n <= SHORT_MAX THEN
            (IF wants_detail(excerpt) THEN _caps_with_mode(CAP_NORMAL, "normal")
             ELSE _caps_with_mode(CAP_SHORT, "short"))
        ELSE IF n <= NORMAL_MAX THEN _caps_with_mode(CAP_NORMAL, "normal")
        ELSE _caps_with_mode(CAP_DEEP, "deep")

\* caps.py 81-99
choose_caps(b) ==
    LET excerpt == _prompt_excerpt(b)
        n == Len(split(excerpt))
    IN  IF has_rag(b) THEN _caps_with_mode(CAP_DEEP, "deep")
        ELSE IF n <= SHORT_MAX THEN
            (IF wants_detail(excerpt) THEN _caps_with_mode(CAP_NORMAL, "normal")
             ELSE _caps_with_mode(CAP_SHORT, "short"))
        ELSE IF n <= NORMAL_MAX THEN
            (IF wants_detail(excerpt) THEN _caps_with_mode(CAP_DEEP, "deep")
             ELSE _caps_with_mode(CAP_NORMAL, "normal"))
        ELSE _caps_with_mode(CAP_DEEP, "deep")

(***************************************************************************)
(* Request bodies.  A marker (files, collection, collections) is           *)
(* "missing", "empty" (falsy: [], "", null) or "nonempty".  parse says     *)
(* what request.get_json(force=True, silent=True) makes of the raw body:   *)
(* "ok" (a JSON object), "unparseable" (None) or "nonobject" (a non-empty  *)
(* JSON array).                                                            *)
(***************************************************************************)
NullStop == <<"<null>">>
NoOptions ==
    [num_predict |-> Missing, num_ctx |-> Missing, stream |-> "missing",
     temperature |-> "missing", repeat_penalty |-> "missing", stop |-> NoStop]
EmptyBody ==
    [parse |-> "ok", files |-> "missing", collection |-> "missing",
     collections |-> "missing", prompt |-> <<>>, messages |-> <<>>,
     model |-> <<>>, stream |-> "missing", max_tokens |-> Missing,
     temperature |-> "missing", stop |-> NoStop, options |-> NoOptions]

\* proxy.py 172: request.get_json(force=True, silent=True) or {}
get_json_or_empty(raw) ==
    IF raw.parse = "unparseable" THEN [EmptyBody EXCEPT !.parse = "unparseable"]
    ELSE raw

\* caps.py 153-159
maybe_downgrade_model(b, ch, cfg) ==
    LET is_short == safe_int(get(ch.num_predict), DefaultInt(INF)).v <= 200
    IN  IF cfg.MODEL_DOWNGRADE /\ is_short /\ ~has_rag(b)
           /\ contains(lower(b.model), <<"1", "4", "b">>)
        THEN [b EXCEPT !.model = FALLBACK_7B]
        ELSE b

\* caps.py 111-130
extract_client_options(b) ==
    LET o == b.options
        np1 == IF b.max_tokens.k # "missing"
                  /\ safe_int(get(o.num_predict), DefaultNone).none
               THEN b.max_tokens ELSE o.num_predict
    IN  [stream |-> IF b.stream # "missing" /\ o.stream = "missing"
                    THEN b.stream ELSE o.stream,
         temperature |-> IF b.temperature # "missing"
                            /\ o.temperature \in {"missing", "null"}
                         THEN b.temperature ELSE o.temperature,
         stop |-> IF b.stop # NoStop /\ o.stop \in {NoStop, NullStop}
                  THEN b.stop ELSE o.stop,
         repeat_penalty |-> o.repeat_penalty,
         num_predict |-> IF np1.k \in {"missing", "null"} THEN Missing ELSE np1,
         num_ctx |-> IF o.num_ctx.k \in {"missing", "null"} THEN Missing ELSE o.num_ctx]

\* an int() failure escaping from extract_client_options (caps.py 122)
extract_raises(b) == safe_int(get(b.options.num_predict), DefaultNone).raised

\* faulty variant: the client's value replaces the preset's limit when it is given
clamp_limit_clientWins(client_val, preset_val) ==
    IF safe_int(get(client_val), DefaultNone).none
    THEN Int_(safe_int(preset_val, DefaultInt(INF)).v)
    ELSE Int_(safe_int(get(client_val), DefaultInt(INF)).v)

\* caps.py 137-140 and 142-145: min(safe_int(client, INF), safe_int(preset, INF))
clamp_limit(client_val, preset_val) ==
    Int_(min2(safe_int(get(client_val), DefaultInt(INF)).v,
              safe_int(preset_val, DefaultInt(INF)).v))

\* caps.py 133-150
clamp_options(ch, client) ==
    [client EXCEPT
        !.num_predict = clamp_limit(client.num_predict, ch.num_predict),
        !.num_ctx = clamp_limit(client.num_ctx, ch.num_ctx),
        !.temperature = IF @ = "missing" THEN ch.temperature ELSE @,
        !.repeat_penalty = IF @ = "missing" THEN ch.repeat_penalty ELSE @,
        !.stop = IF ch.stop # NoStop /\ @ = NoStop THEN ch.stop ELSE @]

\* an int() failure escaping from clamp_options
clamp_raises(ch, client) ==
    \/ safe_int(get(client.num_predict), DefaultInt(INF)).raised
    \/ safe_int(ch.num_predict, DefaultInt(INF)).raised
    \/ safe_int(get(client.num_ctx), DefaultInt(INF)).raised
    \/ safe_int(ch.num_ctx, DefaultInt(INF)).raised

\* bool(final_opts.get("stream", True))            (proxy.py 180, 193)
want_stream_of(opts) == opts.stream \in {"missing", "true"}

\* faulty variant: the retrieval test of line 169 is missing
should_trim_short_ignoresRag(b, ch, want_stream, cfg) ==
    /\ ~want_stream
    /\ cfg.SHORT_SENTENCES > 0
    /\ ch._mode = "short"

\* caps.py 162-171
should_trim_short(b, ch, want_stream, cfg) ==
    /\ ~want_stream
    /\ cfg.SHORT_SENTENCES > 0
    /\ ch._mode = "short"
    /\ ~has_rag(b)

NoPlan ==
    [present |-> FALSE, sentences |-> 0, base_tokens |-> Null, tail_tokens |-> 0,
     chars_per_token10 |-> 0]

\* faulty variant: the allowance is the whole of TAIL_TOKENS whatever the
\* client's limit
compute_trim_config_fullTail(b, ch, want_stream, copts, base_predict, cfg) ==
    IF ~should_trim_short(b, ch, want_stream, cfg) THEN NoPlan
    ELSE [present |-> TRUE,
          sentences |-> max2(1, cfg.SHORT_SENTENCES),
          base_tokens |-> IF base_predict >= INF THEN Null ELSE Int_(base_predict),
          tail_tokens |-> IF cfg.TAIL_TOKENS > 0 /\ base_predict < INF
                          THEN cfg.TAIL_TOKENS ELSE 0,
          chars_per_token10 |-> max2(1, cfg.CHARS_PER_TOKEN10)]

\* faulty variant: min() of line 190 is missing, the allowance is the whole
\* distance to the client's limit
compute_trim_config_noMin(b, ch, want_stream, copts, base_predict, cfg) ==
    LET client_limit == safe_int(get(copts.num_predict), DefaultInt(INF)).v
    IN  IF ~should_trim_short(b, ch, want_stream, cfg) THEN NoPlan
        ELSE [present |-> TRUE,
              sentences |-> max2(1, cfg.SHORT_SENTENCES),
              base_tokens |-> IF base_predict >= INF THEN Null ELSE Int_(base_predict),
              tail_tokens |->
                  IF cfg.TAIL_TOKENS > 0 /\ base_predict < INF
                  THEN IF client_limit = INF THEN cfg.TAIL_TOKENS
                       ELSE IF client_limit > base_predict
                            THEN client_limit - base_predict ELSE 0
                  ELSE 0,
              chars_per_token10 |-> max2(1, cfg.CHARS_PER_TOKEN10)]

\* caps.py 174-197 (chars_per_token in tenths)
compute_trim_config(b, ch, want_stream, copts, base_predict, cfg) ==
    LET client_limit == safe_int(get(copts.num_predict), DefaultInt(INF)).v
        tail_add ==
            IF cfg.TAIL_TOKENS > 0 /\ base_predict < INF
            THEN IF client_limit = INF THEN cfg.TAIL_TOKENS
                 ELSE IF client_limit > base_predict
                      THEN min2(cfg.TAIL_TOKENS, client_limit - base_predict)
                      ELSE 0
            ELSE 0
    IN  IF ~should_trim_short(b, ch, want_stream, cfg) THEN NoPlan
        ELSE [present |-> TRUE,
              sentences |-> max2(1, cfg.SHORT_SENTENCES),
              base_tokens |-> IF base_predict >= INF THEN Null ELSE Int_(base_predict),
              tail_tokens |-> tail_add,
              chars_per_token10 |-> max2(1, cfg.CHARS_PER_TOKEN10)]

\* faulty variant: the allowance is planned but not added to the request
with_tail_notAdded(opts, plan) == opts

\* proxy.py 185-190: the tail allowance raises the dispatched num_predict
with_tail(opts, plan) ==
    IF plan.present /\ plan.tail_tokens # 0 /\ plan.base_tokens.k = "int"
       /\ plan.base_tokens.v # 0 /\ plan.base_tokens.v < INF
    THEN [opts EXCEPT !.num_predict = Int_(plan.base_tokens.v + plan.tail_tokens)]
    ELSE opts

\* the abbreviated DEFAULT_SYSTEM_SHORT (config.py 40-43)
DEFAULT_SYSTEM_SHORT == <<"B", "e", " ", "b", "r", "i", "e", "f", ".">>

\* prompts.py 19-35
inject_concise_system(b, ch) ==
    IF ch._mode # "short" \/ has_rag(b) THEN b
    ELSE IF b.messages # <<>>
    THEN IF b.messages[1].role = "system" THEN b
         ELSE [b EXCEPT !.messages =
                  <<[role |-> "system", content |-> DEFAULT_SYSTEM_SHORT]>> \o @]
    ELSE [b EXCEPT !.prompt = DEFAULT_SYSTEM_SHORT \o <<"\n", "\n">> \o @]

\* proxy.py 166-168, 183
_scrub_openai_options(b) ==
    [b EXCEPT !.max_tokens = Missing, !.temperature = "missing",
              !.stop = NoStop, !.stream = "missing"]

(***************************************************************************)
(* handle_model_request (proxy.py 171-218), one action per call it makes.  *)
(* rpc: "idle" -> "parsed" -> "chosen" -> "downgraded" -> "extracted" ->   *)
(* "clamped" -> "planned" -> "dispatched"; "error" when an exception       *)
(* escapes (the request ends with a 500).                                  *)
(***************************************************************************)
\* proxy.py 172
Receive ==
    /\ rpc = "idle"
    /\ body' = get_json_or_empty(request)
    /\ rpc' = "parsed"
    /\ UNCHANGED <<request, chosen, client_opts, final_opts, trim_config, sent, config>>

\* proxy.py 173; body.get on a list raises AttributeError (caps.py 41)
ChooseCaps ==
    /\ rpc = "parsed"
    /\ IF body.parse = "nonobject"
       THEN rpc' = "error" /\ UNCHANGED chosen
       ELSE chosen' = choose_caps(body) /\ rpc' = "chosen"
    /\ UNCHANGED <<request, body, client_opts, final_opts, trim_config, sent, config>>

\* proxy.py 174
Downgrade ==
    /\ rpc = "chosen"
    /\ body' = maybe_downgrade_model(body, chosen, config)
    /\ rpc' = "downgraded"
    /\ UNCHANGED <<request, chosen, client_opts, final_opts, trim_config, sent, config>>

\* proxy.py 176
Extract ==
    /\ rpc = "downgraded"
    /\ IF extract_raises(body)
       THEN rpc' = "error" /\ UNCHANGED client_opts
       ELSE client_opts' = extract_client_options(body) /\ rpc' = "extracted"
    /\ UNCHANGED <<request, body, chosen, final_opts, trim_config, sent, config>>

\* proxy.py 177
Clamp ==
    /\ rpc = "extracted"
    /\ IF clamp_raises(chosen, client_opts)
       THEN rpc' = "error" /\ UNCHANGED final_opts
       ELSE final_opts' = clamp_options(chosen, client_opts) /\ rpc' = "clamped"
    /\ UNCHANGED <<request, body, chosen, client_opts, trim_config, sent, config>>

\* proxy.py 179-196
Plan ==
    /\ rpc = "clamped"
    /\ LET base_predict == safe_int(get(final_opts.num_predict), DefaultInt(INF)).v
           plan == compute_trim_config(body, chosen, want_stream_of(final_opts),
                                       client_opts, base_predict, config)
           opts == with_tail(final_opts, plan)
       IN  /\ trim_config' = plan
           /\ final_opts' = opts
           /\ body' = inject_concise_system(
                         [_scrub_openai_options(body) EXCEPT
                             !.options = opts,
                             !.stream = IF want_stream_of(opts) THEN "true" ELSE "false"],
                         chosen)
    /\ rpc' = "planned"
    /\ UNCHANGED <<request, chosen, client_opts, sent, config>>

\* proxy.py 207-218
Dispatch ==
    /\ rpc = "planned"
    /\ sent' = [via |-> IF want_stream_of(final_opts)
                        THEN "stream_upstream" ELSE "nonstream_upstream",
                json_body |-> body,
                trim_config |-> IF want_stream_of(final_opts) THEN NoPlan ELSE trim_config]
    /\ rpc' = "dispatched"
    /\ UNCHANGED <<request, body, chosen, client_opts, final_opts, trim_config, config>>

(***************************************************************************)
(* Requests the pipeline is run on                                         *)
(***************************************************************************)
MaxFiller == 61

Filler(k) == text_of([i \in 1..k |-> <<"x">>])
\* head words followed by k filler words, single-spaced, inside padding
PromptText(pad, head, k) ==
    pad \o (IF head = <<>> THEN Filler(k)
            ELSE IF k = 0 THEN text_of(head)
            ELSE text_of(head) \o <<" ">> \o Filler(k)) \o pad

Heads ==
    { <<>>, << <<"w","h","y">> >>, << <<"W","h","Y">> >>, << <<"s","h","o","w">> >>,
      << <<"c","a","t">> >>, << <<"c","a","t">>, <<"p","r","o">> >> }
Pads == { <<>>, <<" ", "\n">> }
Markers == {"missing", "empty", "nonempty"}

ChatMessages ==
    { << [role |-> "user", content |-> <<"w","h","y">>],
         [role |-> "assistant", content |-> Filler(13)] >>,
      << [role |-> "system", content |-> <<"h","o","w">>],
         [role |-> "user", content |-> <<"c","a","t">>],
         [role |-> "user", content |-> <<" ">>] >>,
      << [role |-> "assistant", content |-> <<"w","h","y">>] >> }

\* inputs of the classifier
CapsBodies ==
    {[EmptyBody EXCEPT !.files = f, !.collection = c, !.collections = cs,
                       !.prompt = PromptText(pad, h, k)] :
        f \in Markers, c \in Markers, cs \in Markers,
        pad \in Pads, h \in Heads, k \in 0..MaxFiller}
    \cup
    {[EmptyBody EXCEPT !.files = f, !.messages = m, !.prompt = pr] :
        f \in Markers, m \in ChatMessages, pr \in {<<>>, <<" ">>}}

InitCaps ==
    /\ StreamIdle
    /\ FinIdle
    /\ ConcIdle
    /\ rpc = "idle"
    /\ request \in CapsBodies
    /\ body = <<>>
    /\ chosen = <<>>
    /\ client_opts = <<>>
    /\ final_opts = <<>>
    /\ trim_config = <<>>
    /\ sent = <<>>
    /\ config = DefaultConfig

NextCaps ==
    \/ (Receive /\ UNCHANGED <<streamVars, finVars, concVars>>)
    \/ (ChooseCaps /\ UNCHANGED <<streamVars, finVars, concVars>>)

SpecCaps == InitCaps /\ [][NextCaps]_vars

(***************************************************************************)
(* The whole pipeline on requests that exercise limits, aliases, options   *)
(* and malformed input                                                     *)
(***************************************************************************)
TailConfig == [DefaultConfig EXCEPT !.TAIL_TOKENS = 32]
KeepModelConfig == [DefaultConfig EXCEPT !.MODEL_DOWNGRADE = FALSE]

Model14B == <<"q", "-", "1", "4", "B">>
Model8b == <<"l", "-", "8", "b">>
UserCat == << [role |-> "user", content |-> <<"c","a","t">>] >>
SystemThenUser ==
    << [role |-> "system", content |-> <<"o","k">>],
       [role |-> "user", content |-> <<"c","a","t">>] >>

\* short, normal by keyword, normal by length, deep by length
ReqPrompts ==
    { <<"c","a","t">>, <<"w","h","y">>, Filler(SHORT_MAX + 1), Filler(NORMAL_MAX + 1) }

NumPredicts ==
    { Missing, Null, Int_(-1), Int_(100), Int_(170), Int_(500), Str_(120), Junk }
MaxTokens == { Missing, Null, Int_(50), Int_(900), Junk }
NumCtxs == { Missing, Null, Int_(512), Int_(4096), Junk }

\* requests about the limits
LimitRequests ==
    {[EmptyBody EXCEPT !.prompt = p, !.files = f, !.model = Model14B, !.stream = st,
                       !.max_tokens = mt,
                       !.options = [NoOptions EXCEPT !.num_predict = np, !.num_ctx = nc]] :
        p \in ReqPrompts, f \in {"missing", "nonempty"}, st \in {"missing", "false"},
        mt \in MaxTokens, np \in NumPredicts, nc \in NumCtxs}

\* requests about the other options, the model and the message list
OptionRequests ==
    {[EmptyBody EXCEPT !.prompt = pm[1], !.messages = pm[2], !.model = m,
                       !.stream = st[1], !.temperature = t[1], !.stop = sp[1],
                       !.options = [NoOptions EXCEPT !.stream = st[2],
                                                     !.temperature = t[2],
                                                     !.stop = sp[2]]] :
        pm \in { << <<"c","a","t">>, <<>> >>, << <<>>, UserCat >>,
                 << <<>>, SystemThenUser >>, << Filler(SHORT_MAX + 1), <<>> >> },
        m \in {<<>>, Model14B, Model8b},
        st \in {"missing", "false", "true"} \X {"missing", "true", "false"},
        t \in {"missing", "null", "0.2"} \X {"missing", "null", "0.9"},
        sp \in {NoStop, <<"END">>} \X {NoStop, NullStop}}

\* bodies that are not JSON: whatever they look like, nothing is read from them
UnparseableRequests ==
    {[b EXCEPT !.parse = "unparseable"] :
        b \in {EmptyBody,
               [EmptyBody EXCEPT !.files = "nonempty", !.prompt = Filler(NORMAL_MAX + 1),
                                 !.options = [NoOptions EXCEPT !.num_predict = Int_(100)]]}}

\* a JSON body that is not an object
NonObjectRequests == {[EmptyBody EXCEPT !.parse = "nonobject"]}

Requests ==
    LimitRequests \cup OptionRequests \cup UnparseableRequests \cup NonObjectRequests

InitReq ==
    /\ StreamIdle
    /\ FinIdle
    /\ ConcIdle
    /\ rpc = "idle"
    /\ request \in Requests
    /\ body = <<>>
    /\ chosen = <<>>
    /\ client_opts = <<>>
    /\ final_opts = <<>>
    /\ trim_config = <<>>
    /\ sent = <<>>
    /\ config \in {DefaultConfig, TailConfig, KeepModelConfig}

NextReq ==
    \/ (Receive /\ UNCHANGED <<streamVars, finVars, concVars>>)
    \/ (ChooseCaps /\ UNCHANGED <<streamVars, finVars, concVars>>)
    \/ (Downgrade /\ UNCHANGED <<streamVars, finVars, concVars>>)
    \/ (Extract /\ UNCHANGED <<streamVars, finVars, concVars>>)
    \/ (Clamp /\ UNCHANGED <<streamVars, finVars, concVars>>)
    \/ (Plan /\ UNCHANGED <<streamVars, finVars, concVars>>)
    \/ (Dispatch /\ UNCHANGED <<streamVars, finVars, concVars>>)

SpecReq == InitReq /\ [][NextReq]_vars

(***************************************************************************)
(* Observations on a request                                               *)
(***************************************************************************)
IsNumeric(val) == val.k \in {"int", "str"}
\* the output limit the client asked for: options.num_predict when it is a
\* number, else max_tokens when that is a number, else unbounded
ClientPredict(req) ==
    IF IsNumeric(req.options.num_predict) THEN req.options.num_predict.v
    ELSE IF IsNumeric(req.max_tokens) THEN req.max_tokens.v
    ELSE INF
ClientCtx(req) ==
    IF IsNumeric(req.options.num_ctx) THEN req.options.num_ctx.v ELSE INF
NoMarkers(req) ==
    /\ req.files # "nonempty"
    /\ req.collection # "nonempty"
    /\ req.collections # "nonempty"
PresetOf(mode) ==
    CASE mode = "short" -> CAP_SHORT
      [] mode = "normal" -> CAP_NORMAL
      [] mode = "deep" -> CAP_DEEP
\* the tier table: word count n, keyword match kw
TierOf(n, kw) ==
    IF n <= SHORT_MAX THEN (IF kw THEN "normal" ELSE "short")
    ELSE IF n <= NORMAL_MAX THEN (IF kw THEN "deep" ELSE "normal")
    ELSE "deep"

C8_RagDeep ==
    (rpc = "chosen" /\ ~NoMarkers(request)) =>
        chosen = [CAP_DEEP EXCEPT !._mode = "deep"]

\* a one-word prompt without keyword, only collections is non-empty
C8_Witness ==
    /\ rpc = "chosen"
    /\ request.prompt = <<"c", "a", "t">>
    /\ request.files = "missing"
    /\ request.collection = "empty"
    /\ request.collections = "nonempty"
    /\ chosen._mode = "deep"

(***************************************************************************)
(* C9: without retrieval markers the mode follows the tier table on the    *)
(* excerpt's word count n and the keyword match: short (normal with a      *)
(* keyword) for n <= SHORT_MAX, normal (deep with a keyword) for           *)
(* SHORT_MAX < n <= NORMAL_MAX, deep above; the preset is the mode's.      *)
(***************************************************************************)
C9_Tier ==
    (rpc = "chosen" /\ NoMarkers(request)) =>
        LET excerpt == _prompt_excerpt(request)
            n == Len(split(excerpt))
            kw == \E w \in DETAIL_KEYWORDS : contains(lower(excerpt), w)
        IN  /\ chosen._mode = TierOf(n, kw)
            /\ chosen = [PresetOf(chosen._mode) EXCEPT !._mode = chosen._mode]

\* thirteen words, one of them the keyword in mixed case: promoted to deep
C9_Witness ==
    /\ rpc = "chosen"
    /\ NoMarkers(request)
    /\ request.prompt = PromptText(<<>>, << <<"W","h","Y">> >>, SHORT_MAX)
    /\ chosen._mode = "deep"

(***************************************************************************)
(* C10: an unparseable body is handled as the empty body, and a            *)
(* non-numeric num_predict, num_ctx or max_tokens as an absent one, so     *)
(* that the clamped limit is the preset's; no step of the pipeline raises  *)
(* and the request is dispatched.                                          *)
(***************************************************************************)
C10_Degrades ==
    /\ request.parse # "nonobject" => rpc # "error"
    /\ (request.parse = "unparseable" /\ rpc = "parsed") => body.prompt = <<>>
    /\ (request.parse = "unparseable" /\ rpc = "dispatched") =>
           /\ chosen = [CAP_SHORT EXCEPT !._mode = "short"]
           /\ sent.json_body.options.num_predict = CAP_SHORT.num_predict
           /\ sent.json_body.options.num_ctx = CAP_SHORT.num_ctx
           /\ sent.json_body.files = "missing"
    /\ (request.parse = "ok" /\ rpc = "clamped") =>
           /\ (~IsNumeric(request.options.num_predict) /\ ~IsNumeric(request.max_tokens))
                  => final_opts.num_predict = chosen.num_predict
           /\ ~IsNumeric(request.options.num_ctx) => final_opts.num_ctx = chosen.num_ctx

\* num_predict, max_tokens and num_ctx are all junk and the request is sent
\* with the preset's limits
C10_Witness ==
    /\ rpc = "dispatched"
    /\ request.options.num_predict = Junk
    /\ request.max_tokens = Junk
    /\ request.options.num_ctx = Junk
    /\ sent.json_body.options.num_predict = chosen.num_predict
    /\ sent.json_body.options.num_ctx = chosen.num_ctx

(***************************************************************************)
(* trim_to_boundary as a function of its text: called on a text, and       *)
(* called again on its own result.                                         *)
(***************************************************************************)
MaxText == 5

TextAlphabet == {"a", " ", "\n", ".", "!", "U+3002", ")", "U+0060"}

RECURSIVE TextsOfLen(_)
TextsOfLen(n) ==
    IF n = 0 THEN {<<>>}
    ELSE {Append(t, c) : t \in TextsOfLen(n - 1), c \in TextAlphabet}

\* longer texts that hold two markers
MarkerTexts ==
    {h \o m1 \o mid \o m2 \o tl :
        h \in {<<>>, <<"a">>, <<"a", ".">>}, m1 \in {FENCE, BLANKLINE},
        mid \in {<<>>, <<"b">>, <<" ">>}, m2 \in {FENCE, BLANKLINE},
        tl \in {<<>>, <<"c">>}}

Texts == UNION {TextsOfLen(n) : n \in 0..MaxText} \cup MarkerTexts

\* finishers.py 30-49, one call; the second call takes the first call's result
CallTrim ==
    /\ fpc = "idle"
    /\ Len(applied) < 2
    /\ applied' = Append(applied,
                         trim_to_boundary(IF applied = <<>> THEN fin_text
                                          ELSE applied[Len(applied)]))
    /\ UNCHANGED <<fpc, fin_text, payload, fin_config, modified, r_content, payload_bytes>>

InitTrim ==
    /\ StreamIdle
    /\ ReqIdle
    /\ ConcIdle
    /\ fpc = "idle"
    /\ fin_text \in Texts
    /\ applied = <<>>
    /\ payload = <<>>
    /\ fin_config = <<>>
    /\ modified = FALSE
    /\ r_content = <<>>
    /\ payload_bytes = <<>>

NextTrim == CallTrim /\ UNCHANGED <<streamVars, reqVars, concVars>>

SpecTrim == InitTrim /\ [][NextTrim]_vars

(***************************************************************************)
(* C11 (as claimed): trim_to_boundary is idempotent: the second call       *)
(* returns what the first call returned.                                   *)
(***************************************************************************)
C11_Claimed ==
    Len(applied) = 2 => applied[2] = applied[1]

(***************************************************************************)
(* Observations on a text                                                  *)
(***************************************************************************)
HasMarker(t) ==
    \/ \E i \in 1..(Len(t) - 2) : SubSeq(t, i, i + 2) = FENCE
    \/ \E i \in 1..(Len(t) - 1) : SubSeq(t, i, i + 1) = BLANKLINE
PunctPositions(t) == {i \in 1..Len(t) : t[i] \in SENT_PUNCT}
\* the text ends in sentence punctuation, a closing bracket or quote allowed
\* after it
EndsInPunct(t) ==
    /\ t # <<>>
    /\ \/ t[Len(t)] \in SENT_PUNCT
       \/ (Len(t) >= 2 /\ t[Len(t)] \in CLOSERS /\ t[Len(t) - 1] \in SENT_PUNCT)

(***************************************************************************)
(* C12 (as claimed): a text without marker that does not end in sentence   *)
(* punctuation is cut after the right-most sentence punctuation character  *)
(* of any kind it holds; without any it is returned right-trimmed.         *)
(***************************************************************************)
C12_Claimed ==
    (Len(applied) >= 1 /\ ~HasMarker(rstrip(fin_text)) /\ ~EndsInPunct(rstrip(fin_text))) =>
        applied[1] = IF PunctPositions(fin_text) = {} THEN rstrip(fin_text)
                     ELSE SubSeq(fin_text, 1, Max(PunctPositions(fin_text)))

(***************************************************************************)
(* The non-streaming finishers (finishers.py 23-134)                       *)
(***************************************************************************)
\* a JSON value that is not a string
NonString == <<"<null>">>
IsStr(v) == v # Absent /\ v # NonString

\* SENT_SPLIT.split (finishers.py 11, 24): cut at every whitespace run that
\* follows sentence punctuation
RECURSIVE sent_split(_)
sent_split(t) ==
    LET cuts == {i \in 2..Len(t) : t[i] \in WS /\ t[i - 1] \in SENT_PUNCT}
        i == Min(cuts)
        rest == lstrip(SubSeq(t, i, Len(t)))
    IN  IF cuts = {} THEN <<t>>
        ELSE <<SubSeq(t, 1, i - 1)>> \o sent_split(rest)

\* finishers.py 23-27
keep_first_sentences(t, n) ==
    LET parts == sent_split(strip(t))
    IN  text_of(SubSeq(parts, 1, min2(n, Len(parts))))

\* faulty variant: the hard truncation of lines 62-66 is missing
finish_short_text_noCeiling(t, cfg) ==
    LET raw0 == strip(t)
        sentences == IF cfg.sentences # 0 THEN cfg.sentences
                     ELSE DefaultConfig.SHORT_SENTENCES
        kept == strip(keep_first_sentences(raw0, max2(1, sentences)))
        trimmed == IF cfg.tail_tokens > 0 /\ trim_to_boundary(kept) # <<>>
                   THEN trim_to_boundary(kept) ELSE kept
    IN  IF raw0 = <<>> THEN t
        ELSE IF trimmed # <<>> THEN trimmed ELSE t

\* finishers.py 52-75; cfg is a plan as compute_trim_config builds it
finish_short_text(t, cfg) ==
    LET raw0 == strip(t)
        base_tokens == IF cfg.base_tokens.k = "int" THEN cfg.base_tokens.v ELSE 0
        tail_tokens == cfg.tail_tokens
        cpt10 == IF cfg.chars_per_token10 # 0 THEN cfg.chars_per_token10
                 ELSE DefaultConfig.CHARS_PER_TOKEN10
        sentences == IF cfg.sentences # 0 THEN cfg.sentences
                     ELSE DefaultConfig.SHORT_SENTENCES
        max_chars == ((base_tokens + max2(0, tail_tokens)) * cpt10) \div 10
        raw == IF base_tokens > 0 /\ cpt10 > 0 /\ max_chars > 0 /\ Len(raw0) > max_chars
               THEN rstrip(prefix(raw0, max_chars)) ELSE raw0
        kept == strip(keep_first_sentences(raw, max2(1, sentences)))
        trimmed == IF tail_tokens > 0 /\ trim_to_boundary(kept) # <<>>
                   THEN trim_to_boundary(kept) ELSE kept
    IN  IF raw0 = <<>> THEN t
        ELSE IF trimmed # <<>> THEN trimmed ELSE t

\* finishers.py 78-100: the payload after the call and the returned flag
apply_short_response_finisher(p, cfg) ==
    LET resp == IF IsStr(p.response) THEN finish_short_text(p.response, cfg)
                ELSE p.response
        cont == IF IsStr(p.content) THEN finish_short_text(p.content, cfg)
                ELSE p.content
    IN  [payload |-> [p EXCEPT !.response = resp, !.content = cont],
         changed |-> resp # p.response \/ cont # p.content]

\* faulty variant: the marker is added only when trimming changed the text
_tidy_onlyWhenCut(value) ==
    IF ~IsStr(value) THEN value
    ELSE IF trim_to_boundary(value) # value THEN trim_to_boundary(value) \o ELLIPSIS
    ELSE trim_to_boundary(value)

\* finishers.py 109-117
_tidy(value) ==
    IF ~IsStr(value) THEN value
    ELSE IF trim_to_boundary(value) # value THEN trim_to_boundary(value) \o ELLIPSIS
    ELSE IF trim_to_boundary(value) # <<>> /\ ~endswith_END_PUNCT(trim_to_boundary(value))
    THEN trim_to_boundary(value) \o ELLIPSIS
    ELSE trim_to_boundary(value)

\* faulty variant: the done_reason test is missing
apply_length_cutoff_finisher_anyReason(p) ==
    [payload |-> [p EXCEPT !.response = _tidy(p.response), !.content = _tidy(p.content)],
     changed |-> _tidy(p.response) # p.response \/ _tidy(p.content) # p.content]

\* finishers.py 103-134: the payload after the call and the returned flag;
\* a value that is absent or not a string is left alone
apply_length_cutoff_finisher(p) ==
    IF p.done_reason # "length" THEN [payload |-> p, changed |-> FALSE]
    ELSE [payload |-> [p EXCEPT !.response = _tidy(p.response),
                                !.content = _tidy(p.content)],
          changed |-> _tidy(p.response) # p.response \/ _tidy(p.content) # p.content]

(***************************************************************************)
(* nonstream_upstream (proxy.py 124-163) on the upstream's JSON payload    *)
(***************************************************************************)
MaxFinText == 4

FinAlphabet == {"a", " ", ".", "!", "\n"}

RECURSIVE FinTextsOfLen(_)
FinTextsOfLen(n) ==
    IF n = 0 THEN {<<>>}
    ELSE {Append(t, c) : t \in FinTextsOfLen(n - 1), c \in FinAlphabet}

FinTexts == UNION {FinTextsOfLen(n) : n \in 0..MaxFinText}

\* what the upstream can answer: JSON objects with or without response,
\* message.content and done_reason, and a body that is no JSON object
Payloads ==
    {[dict |-> TRUE, response |-> r, content |-> c, done_reason |-> d] :
        r \in FinTexts \cup {Absent, NonString},
        c \in {Absent, NonString, <<"a", ".", " ", "a">>, <<"a", ".">>},
        d \in {"", "stop", "length"}}
NotADict == [dict |-> FALSE, response |-> Absent, content |-> Absent, done_reason |-> ""]

\* plans compute_trim_config can hand over
FinPlans ==
    { NoPlan,
      [present |-> TRUE, sentences |-> 2, base_tokens |-> Null, tail_tokens |-> 0,
       chars_per_token10 |-> 40],
      [present |-> TRUE, sentences |-> 1, base_tokens |-> Int_(1), tail_tokens |-> 1,
       chars_per_token10 |-> 15] }

\* proxy.py 134-154
Fetch ==
    /\ fpc = "idle"
    /\ payload' = r_content
    /\ modified' = FALSE
    /\ fpc' = IF r_content.dict THEN "parsed" ELSE "checked"
    /\ UNCHANGED <<fin_text, applied, fin_config, r_content, payload_bytes>>

\* proxy.py 155-156
ShortFinish ==
    /\ fpc = "parsed"
    /\ IF fin_config.present
       THEN /\ payload' = apply_short_response_finisher(payload, fin_config).payload
            /\ modified' = apply_short_response_finisher(payload, fin_config).changed
            /\ applied' = Append(applied,
                  [fn |-> "short", before |-> payload,
                   changed |-> apply_short_response_finisher(payload, fin_config).changed])
       ELSE UNCHANGED <<payload, modified, applied>>
    /\ fpc' = "short_done"
    /\ UNCHANGED <<fin_text, fin_config, r_content, payload_bytes>>

\* proxy.py 157-158
LengthFinish ==
    /\ fpc = "short_done"
    /\ payload' = apply_length_cutoff_finisher(payload).payload
    /\ modified' = (modified \/ apply_length_cutoff_finisher(payload).changed)
    /\ applied' = Append(applied,
          [fn |-> "length", before |-> payload,
           changed |-> apply_length_cutoff_finisher(payload).changed])
    /\ fpc' = "checked"
    /\ UNCHANGED <<fin_text, fin_config, r_content, payload_bytes>>

\* proxy.py 159-163
Respond ==
    /\ fpc = "checked"
    /\ payload_bytes' = IF modified THEN payload ELSE r_content
    /\ fpc' = "responded"
    /\ UNCHANGED <<fin_text, applied, payload, fin_config, modified, r_content>>

InitFin ==
    /\ StreamIdle
    /\ ReqIdle
    /\ ConcIdle
    /\ fpc = "idle"
    /\ fin_text = <<>>
    /\ applied = <<>>
    /\ payload = <<>>
    /\ fin_config \in FinPlans
    /\ modified = FALSE
    /\ r_content \in Payloads \cup {NotADict}
    /\ payload_bytes = <<>>

NextFin ==
    \/ (Fetch /\ UNCHANGED <<streamVars, reqVars, concVars>>)
    \/ (ShortFinish /\ UNCHANGED <<streamVars, reqVars, concVars>>)
    \/ (LengthFinish /\ UNCHANGED <<streamVars, reqVars, concVars>>)
    \/ (Respond /\ UNCHANGED <<streamVars, reqVars, concVars>>)

SpecFin == InitFin /\ [][NextFin]_vars

\* the call of apply_length_cutoff_finisher that was made, if any
LengthCalls == {i \in 1..Len(applied) : applied[i].fn = "length"}

(***************************************************************************)
(* C13 (as claimed): with done_reason "length" each text field becomes its *)
(* trim_to_boundary result plus " ..." exactly when the trimmed text       *)
(* differs from the original or does not end in terminal punctuation, and  *)
(* stays as it is otherwise; the call returns true exactly when a field    *)
(* changed.                                                                *)
(***************************************************************************)
TidyClaimed(v) ==
    IF trim_to_boundary(v) # v \/ ~endswith_END_PUNCT(trim_to_boundary(v))
    THEN trim_to_boundary(v) \o ELLIPSIS ELSE v

C13_Claimed ==
    \A i \in LengthCalls :
        applied[i].before.done_reason = "length" =>
            /\ IsStr(applied[i].before.response) =>
                   payload.response = TidyClaimed(applied[i].before.response)
            /\ IsStr(applied[i].before.content) =>
                   payload.content = TidyClaimed(applied[i].before.content)
            /\ applied[i].changed = (payload # applied[i].before)

(***************************************************************************)
(* C13 (amended): the marker is appended exactly when the trimmed text     *)
(* differs from the original, or is non-empty and does not end in terminal *)
(* punctuation; an empty text stays empty, a field that is absent or not a *)
(* string is left alone, and the call returns true exactly when a field    *)
(* changed.                                                                *)
(***************************************************************************)
TidyAmended(v) ==
    IF trim_to_boundary(v) # v
       \/ (trim_to_boundary(v) # <<>> /\ ~endswith_END_PUNCT(trim_to_boundary(v)))
    THEN trim_to_boundary(v) \o ELLIPSIS ELSE v

C13_Tidy ==
    \A i \in LengthCalls :
        applied[i].before.done_reason = "length" =>
            /\ payload.response = IF IsStr(applied[i].before.response)
                                  THEN TidyAmended(applied[i].before.response)
                                  ELSE applied[i].before.response
            /\ payload.content = IF IsStr(applied[i].before.content)
                                 THEN TidyAmended(applied[i].before.content)
                                 ELSE applied[i].before.content
            /\ payload.done_reason = "length"
            /\ applied[i].changed = (payload # applied[i].before)

\* "a. a" is cut to "a." and marked, the content "a." is kept as it is
C13_Witness ==
    /\ fpc = "checked"
    /\ LengthCalls # {}
    /\ r_content.done_reason = "length"
    /\ r_content.response = <<"a", ".", " ", "a">>
    /\ r_content.content = <<"a", ".">>
    /\ payload.response = <<"a", ".", " ", ".", ".", ".">>
    /\ payload.content = <<"a", ".">>
    /\ modified

(***************************************************************************)
(* C14: when done_reason is not "length" (absent included),                *)
(* apply_length_cutoff_finisher leaves the payload as it is and returns    *)
(* false.                                                                  *)
(***************************************************************************)
C14_Frame ==
    \A i \in LengthCalls :
        applied[i].before.done_reason # "length" =>
            /\ payload = applied[i].before
            /\ ~applied[i].changed

\* no done_reason at all, and texts the finisher would have rewritten
C14_Witness ==
    /\ fpc = "checked"
    /\ LengthCalls # {}
    /\ r_content.done_reason = ""
    /\ r_content.response = <<"a", ".", " ", "a">>
    /\ r_content.content = <<"a", ".", " ", "a">>
    /\ fin_config = NoPlan
    /\ payload = r_content
    /\ ~modified

(***************************************************************************)
(* Observations on a chat stream                                           *)
(***************************************************************************)
\* the text an event carries: its response, else its message content
fragment_of(line) ==
    IF piece_of(line) # <<>> THEN piece_of(line)
    ELSE IF line.kind = "obj" /\ line.content # Absent THEN line.content
    ELSE <<>>

RECURSIVE fragments(_)
fragments(lines) ==
    IF lines = <<>> THEN <<>> ELSE fragment_of(Head(lines)) \o fragments(Tail(lines))

\* all the text the upstream streamed
FullStreamText == fragments(received)

\* every line is a chat event: text in message.content, no response field
IsChatStream ==
    \A i \in 1..Len(received) :
        /\ received[i].kind = "obj"
        /\ received[i].response = Absent
        /\ received[i].content # Absent

(***************************************************************************)
(* C15 (as claimed): the streaming repair never leaves an empty text where *)
(* the streamed text was non-blank: neither the emitted response text nor  *)
(* the message content written into the repaired terminal event is empty.  *)
(***************************************************************************)
C15_Claimed ==
    (LengthRepaired /\ strip(FullStreamText) # <<>>) =>
        /\ strip(UpstreamText) # <<>> => EmittedText # <<>>
        /\ \A i \in FinalPositions :
              out[i].line.content # Absent => out[i].line.content # <<>>

(***************************************************************************)
(* C16 (as claimed): on a chat stream that ends length-truncated, the      *)
(* repaired terminal event's message.content is the boundary-trimmed text  *)
(* of all content fragments received (with or without the " ..." marker).  *)
(***************************************************************************)
C16_Claimed ==
    (LengthRepaired /\ IsChatStream) =>
        \A i \in FinalPositions :
            out[i].line.content \in
                { trim_to_boundary(FullStreamText), cleaned_text(FullStreamText) }

(***************************************************************************)
(* C17 (as claimed): the model id is replaced by the fallback exactly when *)
(* downgrading is enabled, the effective output limit (the client's        *)
(* options clamped against the preset) is at most 200, there are no        *)
(* retrieval markers and the model name holds "14b" in any case; otherwise *)
(* the request is left unchanged.                                          *)
(***************************************************************************)
C17_Claimed ==
    (rpc = "clamped" /\ request.parse = "ok") =>
        LET wanted == /\ config.MODEL_DOWNGRADE
                      /\ final_opts.num_predict.v <= 200
                      /\ NoMarkers(request)
                      /\ contains(lower(request.model), <<"1", "4", "b">>)
        IN  body = [request EXCEPT !.model = IF wanted THEN FALLBACK_7B ELSE @]

(***************************************************************************)
(* Concurrent requests.  The presets CAP_SHORT, CAP_NORMAL and CAP_DEEP    *)
(* are module-level dicts shared by all request contexts; every other dict *)
(* is created inside a call.  Dicts and lists are objects on a heap, named *)
(* <<0, n>> for the catalog and <<i, n>> for an object created by context  *)
(* i; a dict's stop entry holds a reference to its list.  Every read and   *)
(* write of an object is recorded in accesses.                             *)
(***************************************************************************)
Contexts == {1, 2}
CatalogObjs ==
    { <<0, "CAP_SHORT">>, <<0, "CAP_NORMAL">>, <<0, "CAP_DEEP">>,
      <<0, "CAP_SHORT.stop">>, <<0, "CAP_NORMAL.stop">> }
LocalNames == {"body", "chosen", "opts", "out"}
Objs == CatalogObjs \cup (Contexts \X LocalNames)
NoObj == [free |-> TRUE]

ShortStopRef == <<"@CAP_SHORT.stop">>
NormalStopRef == <<"@CAP_NORMAL.stop">>

\* the catalog as config.py 20-31 builds it at import
CatalogInit ==
    [o \in CatalogObjs |->
        CASE o = <<0, "CAP_SHORT">> -> [CAP_SHORT EXCEPT !.stop = ShortStopRef]
          [] o = <<0, "CAP_NORMAL">> -> [CAP_NORMAL EXCEPT !.stop = NormalStopRef]
          [] o = <<0, "CAP_DEEP">> -> CAP_DEEP
          [] OTHER -> [items |-> IM_END]]

\* the template choose_caps passes to _caps_with_mode (caps.py 83-99)
TemplateOf(mode) ==
    CASE mode = "short" -> <<0, "CAP_SHORT">>
      [] mode = "normal" -> <<0, "CAP_NORMAL">>
      [] mode = "deep" -> <<0, "CAP_DEEP">>

\* the list objects a dict's stop entry refers to
StopObjs(d) ==
    IF d.stop = ShortStopRef THEN {<<0, "CAP_SHORT.stop">>}
    ELSE IF d.stop = NormalStopRef THEN {<<0, "CAP_NORMAL.stop">>}
    ELSE {}

\* faulty variant: no copy is made, the caller works on the original dict
dict_noCopy(h, src, new) == [heap |-> h, ref |-> src]

\* dict(src): a new dict object with the items of src (a shallow copy: a
\* list entry refers to the same list)
dict(h, src, new) == [heap |-> [h EXCEPT ![new] = h[src]], ref |-> new]

ConcRequests ==
    {[EmptyBody EXCEPT !.prompt = p, !.files = f, !.model = Model14B,
                       !.options = [NoOptions EXCEPT !.num_predict = np]] :
        p \in {<<"c","a","t">>, <<"w","h","y">>}, f \in {"missing", "nonempty"},
        np \in {Missing, Int_(100)}}

Reads(i, objs) == {<<i, o, "r">> : o \in objs}
Writes(i, objs) == {<<i, o, "w">> : o \in objs}

\* proxy.py 172: the request's own body dict
CReceive(i) ==
    /\ th[i].pc = "idle"
    /\ \E r \in ConcRequests :
          heap' = [heap EXCEPT ![<<i, "body">>] = get_json_or_empty(r)]
    /\ th' = [th EXCEPT ![i].pc = "parsed"]
    /\ accesses' = accesses \cup Writes(i, {<<i, "body">>})

\* proxy.py 173, caps.py 44-47: data = dict(template); data["_mode"] = mode
CChoose(i) ==
    /\ th[i].pc = "parsed"
    /\ LET mode == choose_caps(heap[<<i, "body">>])._mode
           data == dict(heap, TemplateOf(mode), <<i, "chosen">>)
       IN  /\ heap' = [data.heap EXCEPT ![data.ref]._mode = mode]
           /\ th' = [th EXCEPT ![i].pc = "chosen", ![i].chosen = data.ref]
           /\ accesses' = accesses \cup Reads(i, {<<i, "body">>, TemplateOf(mode)})
                                   \cup Writes(i, {data.ref})

\* proxy.py 174, caps.py 153-159: body["model"] = FALLBACK_7B
CDowngrade(i) ==
    /\ th[i].pc = "chosen"
    /\ heap' = [heap EXCEPT ![<<i, "body">>] =
                   maybe_downgrade_model(@, heap[th[i].chosen], DefaultConfig)]
    /\ th' = [th EXCEPT ![i].pc = "downgraded"]
    /\ accesses' = accesses \cup Reads(i, {<<i, "body">>, th[i].chosen})
                            \cup Writes(i, {<<i, "body">>})

\* proxy.py 176, caps.py 112: opts = dict(body.get("options") or {})
CExtract(i) ==
    /\ th[i].pc = "downgraded"
    /\ heap' = [heap EXCEPT ![<<i, "opts">>] = extract_client_options(heap[<<i, "body">>])]
    /\ th' = [th EXCEPT ![i].pc = "extracted"]
    /\ accesses' = accesses \cup Reads(i, {<<i, "body">>}) \cup Writes(i, {<<i, "opts">>})

\* proxy.py 177, caps.py 134-150: out = dict(client); out[...] = ...
CClamp(i) ==
    /\ th[i].pc = "extracted"
    /\ LET o == dict(heap, <<i, "opts">>, <<i, "out">>)
       IN  /\ heap' = [o.heap EXCEPT ![o.ref] =
                          clamp_options(heap[th[i].chosen], heap[<<i, "opts">>])]
           /\ th' = [th EXCEPT ![i].pc = "clamped", ![i].out = o.ref]
           /\ accesses' = accesses \cup Reads(i, {th[i].chosen, <<i, "opts">>})
                                   \cup Writes(i, {o.ref})

\* proxy.py 183-218: scrub, body["options"] = final_opts, inject, json.dumps
CSend(i) ==
    /\ th[i].pc = "clamped"
    /\ heap' = [heap EXCEPT ![<<i, "body">>] =
                   inject_concise_system(
                       [_scrub_openai_options(@) EXCEPT
                           !.options = heap[th[i].out],
                           !.stream = IF want_stream_of(heap[th[i].out])
                                      THEN "true" ELSE "false"],
                       heap[th[i].chosen])]
    /\ th' = [th EXCEPT ![i].pc = "dispatched"]
    /\ accesses' = accesses
          \cup Reads(i, {<<i, "body">>, th[i].chosen, th[i].out}
                        \cup StopObjs(heap[th[i].out]))
          \cup Writes(i, {<<i, "body">>})

\* the response was returned, the request's objects are dropped and the
\* context serves the next request
CFinish(i) ==
    /\ th[i].pc = "dispatched"
    /\ heap' = [o \in Objs |-> IF o[1] = i THEN NoObj ELSE heap[o]]
    /\ th' = [th EXCEPT ![i] = [pc |-> "idle", chosen |-> <<i, "chosen">>,
                                out |-> <<i, "out">>]]
    /\ UNCHANGED accesses

InitConc ==
    /\ StreamIdle
    /\ ReqIdle
    /\ FinIdle
    /\ heap = [o \in Objs |-> IF o \in CatalogObjs THEN CatalogInit[o] ELSE NoObj]
    /\ th = [i \in Contexts |->
                [pc |-> "idle", chosen |-> <<i, "chosen">>, out |-> <<i, "out">>]]
    /\ accesses = {}

NextConc ==
    \/ \E i \in Contexts : CReceive(i) /\ UNCHANGED <<streamVars, reqVars, finVars>>
    \/ \E i \in Contexts : CChoose(i) /\ UNCHANGED <<streamVars, reqVars, finVars>>
    \/ \E i \in Contexts : CDowngrade(i) /\ UNCHANGED <<streamVars, reqVars, finVars>>
    \/ \E i \in Contexts : CExtract(i) /\ UNCHANGED <<streamVars, reqVars, finVars>>
    \/ \E i \in Contexts : CClamp(i) /\ UNCHANGED <<streamVars, reqVars, finVars>>
    \/ \E i \in Contexts : CSend(i) /\ UNCHANGED <<streamVars, reqVars, finVars>>
    \/ \E i \in Contexts : CFinish(i) /\ UNCHANGED <<streamVars, reqVars, finVars>>

SpecConc == InitConc /\ [][NextConc]_vars

(***************************************************************************)
(* C18: whatever the interleaving of the requests, the catalog objects     *)
(* keep their startup contents (no _mode key, no client option), the       *)
(* catalog is only ever read, and an object created by one request is      *)
(* neither read nor written by another.                                    *)
(***************************************************************************)
C18_Isolation ==
    /\ \A o \in CatalogObjs : heap[o] = CatalogInit[o]
    /\ \A a \in accesses :
          /\ a[2][1] = 0 => a[3] = "r"
          /\ a[2][1] # 0 => a[2][1] = a[1]

\* both contexts work on a copy of the same preset at the same time, one
\* already holds the catalog's stop list in its options
C18_Witness ==
    /\ th[1].pc = "clamped"
    /\ th[2].pc = "chosen"
    /\ heap[<<1, "chosen">>]._mode = "short"
    /\ heap[<<2, "chosen">>]._mode = "short"
    /\ heap[<<1, "out">>].stop = ShortStopRef
    /\ heap[<<1, "out">>].num_predict = Int_(100)
    /\ <<2, <<0, "CAP_DEEP">>, "r">> \in accesses

(***************************************************************************)
(* C19 (as claimed): after extract_client_options and clamp_options a      *)
(* temperature, repeat_penalty or stop that the client left unset or set   *)
(* to null is the preset's value, a non-null client value is kept, and the *)
(* preset's stop list is used only when the client supplied none.          *)
(***************************************************************************)
\* the client's value: the one in options, else the top-level one; nulls
\* count as absent
ClientTemperature(req) ==
    IF req.options.temperature \notin {"missing", "null"} THEN req.options.temperature
    ELSE IF req.temperature \notin {"missing", "null"} THEN req.temperature
    ELSE "missing"
ClientStop(req) ==
    IF req.options.stop \notin {NoStop, NullStop} THEN req.options.stop
    ELSE IF req.stop \notin {NoStop, NullStop} THEN req.stop
    ELSE NoStop

C19_Claimed ==
    (rpc = "clamped" /\ request.parse = "ok") =>
        /\ final_opts.temperature =
              IF ClientTemperature(request) # "missing" THEN ClientTemperature(request)
              ELSE chosen.temperature
        /\ final_opts.repeat_penalty =
              IF request.options.repeat_penalty \notin {"missing", "null"}
              THEN request.options.repeat_penalty ELSE chosen.repeat_penalty
        /\ final_opts.stop =
              IF ClientStop(request) # NoStop THEN ClientStop(request) ELSE chosen.stop

(***************************************************************************)
(* C20: the num_predict dispatched upstream is the clamped limit plus the  *)
(* plan's tail allowance when a plan grants a non-zero allowance, and the  *)
(* clamped limit, unchanged, when there is no plan or the allowance is 0.  *)
(***************************************************************************)
C20_TailAdded ==
    (rpc = "dispatched" /\ request.parse = "ok") =>
        LET clamped == min2(ClientPredict(request), chosen.num_predict.v)
        IN  sent.json_body.options.num_predict =
               IF trim_config.present /\ trim_config.tail_tokens # 0
               THEN Int_(clamped + trim_config.tail_tokens)
               ELSE Int_(clamped)

\* a short non-streamed request under TAIL_TOKENS = 32 whose client asked
\* for more than the preset: 160 + 32 is dispatched
C20_Witness ==
    /\ rpc = "dispatched"
    /\ config = TailConfig
    /\ request.options.num_predict = Int_(500)
    /\ trim_config.present
    /\ trim_config.tail_tokens = 32
    /\ sent.via = "nonstream_upstream"
    /\ sent.json_body.options.num_predict = Int_(192)

PlanConfigs ==
    {[DefaultConfig EXCEPT !.TAIL_TOKENS = t, !.SHORT_SENTENCES = n,
                           !.CHARS_PER_TOKEN10 = c] :
        t \in {-1, 0, 32}, n \in {-1, 0, 2}, c \in {0, 40}}
PlanBodies ==
    {[EmptyBody EXCEPT !.prompt = <<"c","a","t">>, !.files = f] :
        f \in {"missing", "nonempty"}}
PlanChosen ==
    {_caps_with_mode(PresetOf(m), m) : m \in {"short", "normal", "deep"}}
PlanClientLimits ==
    {Missing, Int_(-1), Int_(100), Int_(160), Int_(170), Int_(500), Int_(INF), Junk}
PlanBaseLimits ==
    {Missing, Int_(-1), Int_(0), Int_(100), Int_(160), Int_(INF), Int_(INF + 1)}

InitPlan ==
    /\ StreamIdle
    /\ FinIdle
    /\ ConcIdle
    /\ rpc = "clamped"
    /\ body \in PlanBodies
    /\ request = body
    /\ chosen \in PlanChosen
    /\ client_opts \in {[NoOptions EXCEPT !.num_predict = np] : np \in PlanClientLimits}
    /\ final_opts \in {[NoOptions EXCEPT !.num_predict = np, !.stream = st] :
                          np \in PlanBaseLimits, st \in {"missing", "true", "false"}}
    /\ trim_config = <<>>
    /\ sent = <<>>
    /\ config \in PlanConfigs

NextPlan ==
    \/ (Plan /\ UNCHANGED <<streamVars, finVars, concVars>>)
    \/ (Dispatch /\ UNCHANGED <<streamVars, finVars, concVars>>)

SpecPlan == InitPlan /\ [][NextPlan]_vars

(***************************************************************************)
(* C22: compute_trim_config returns a plan exactly when the response is    *)
(* not streamed, SHORT_SENTENCES > 0, the preset mode is short and the     *)
(* request has no retrieval markers; otherwise it returns None, the        *)
(* num_predict is dispatched as it was clamped and no plan reaches the     *)
(* response handling.                                                      *)
(***************************************************************************)
C22_PlanIff ==
    [][/\ (rpc = "clamped" /\ rpc' = "planned") =>
            /\ trim_config'.present <=>
                   /\ ~want_stream_of(final_opts)
                   /\ config.SHORT_SENTENCES > 0
                   /\ chosen._mode = "short"
                   /\ NoMarkers(request)
            /\ ~trim_config'.present =>
                   /\ trim_config' = NoPlan
                   /\ final_opts' = final_opts
       /\ (rpc = "planned" /\ rpc' = "dispatched") =>
            (~trim_config.present =>
                /\ sent'.trim_config = NoPlan
                /\ sent'.json_body.options = final_opts)]_vars

\* a streamed short-mode request without markers under TAIL_TOKENS = 32:
\* no plan, the limit stays 160
C22_Witness ==
    /\ rpc = "dispatched"
    /\ config.TAIL_TOKENS = 32
    /\ config.SHORT_SENTENCES = 2
    /\ chosen._mode = "short"
    /\ NoMarkers(request)
    /\ sent.via = "stream_upstream"
    /\ trim_config = NoPlan
    /\ sent.json_body.options.num_predict = Int_(160)

(***************************************************************************)
(* Observations on a call of compute_trim_config                           *)
(***************************************************************************)
\* the tail allowance by cases: base is the clamped limit, limit the
\* client's num_predict
TailByCases(tail_tokens_cfg, base, limit) ==
    IF ~(tail_tokens_cfg > 0 /\ base < INF) THEN 0
    ELSE IF ~IsNumeric(limit) THEN tail_tokens_cfg
    ELSE IF limit.v > base THEN min2(tail_tokens_cfg, limit.v - base)
    ELSE 0
BaseOf(opts) == safe_int(get(opts.num_predict), DefaultInt(INF)).v

(***************************************************************************)
(* C23 (as claimed): in a plan the tail allowance is 0 unless              *)
(* TAIL_TOKENS > 0 and the base limit is bounded; then it is TAIL_TOKENS   *)
(* without a client limit, min(TAIL_TOKENS, client - base) for a client    *)
(* limit above the base, 0 for one at or below it; every plan has          *)
(* 0 <= allowance <= TAIL_TOKENS, sentences >= 1, chars-per-token > 0.     *)
(***************************************************************************)
C23_Claimed ==
    [][(rpc = "clamped" /\ rpc' = "planned" /\ trim_config'.present) =>
          /\ trim_config'.tail_tokens =
                 TailByCases(config.TAIL_TOKENS, BaseOf(final_opts), client_opts.num_predict)
          /\ 0 <= trim_config'.tail_tokens
          /\ trim_config'.tail_tokens <= config.TAIL_TOKENS
          /\ trim_config'.sentences >= 1
          /\ trim_config'.chars_per_token10 > 0]_vars

(***************************************************************************)
(* C23 (amended): the same allowance by cases; every plan has              *)
(* 0 <= allowance <= max(0, TAIL_TOKENS), sentences >= 1 and               *)
(* chars-per-token > 0.                                                    *)
(***************************************************************************)
C23_TailAllowance ==
    [][(rpc = "clamped" /\ rpc' = "planned" /\ trim_config'.present) =>
          /\ trim_config'.tail_tokens =
                 TailByCases(config.TAIL_TOKENS, BaseOf(final_opts), client_opts.num_predict)
          /\ 0 <= trim_config'.tail_tokens
          /\ trim_config'.tail_tokens <= max2(0, config.TAIL_TOKENS)
          /\ trim_config'.sentences >= 1
          /\ trim_config'.chars_per_token10 > 0]_vars

\* TAIL_TOKENS = 32, base 160, the client asked for 170: the allowance is 10
C23_Witness ==
    /\ rpc = "planned"
    /\ config.TAIL_TOKENS = 32
    /\ client_opts.num_predict = Int_(170)
    /\ trim_config.present
    /\ trim_config.base_tokens = Int_(160)
    /\ trim_config.tail_tokens = 10

(***************************************************************************)
(* C24: while upstream lines are arriving, gen holds exactly the most      *)
(* recent line and has emitted exactly the earlier ones, unchanged and in  *)
(* order: after k >= 1 lines, k - 1 are emitted and one is buffered.       *)
(***************************************************************************)
C24_Lookahead ==
    (pc \in {"iter", "yield55"} /\ Len(received) >= 1) =>
        LET k == Len(received)
            \* suspended at line 55 the new line is in raw_line, about to
            \* replace the line just yielded
            held == IF pc = "iter" THEN pending_bytes ELSE raw_line
        IN  /\ held = received[k]
            /\ Len(out) = k - 1
            /\ \A i \in 1..(k - 1) : out[i] = Emit("forward", received[i])

\* three lines consumed, among them one that does not parse and a length
\* event that is not the last line: two emitted, the third held
C24_Witness ==
    /\ pc = "iter"
    /\ Len(received) = 3
    /\ received[1] = BadLine("garbage")
    /\ received[2] = Obj(<<"a">>, TRUE, "length", Absent, "m")
    /\ Len(out) = 2
    /\ out[2].line = received[2]
    /\ pending_bytes = received[3]

(***************************************************************************)
(* Observations on a stream the upstream delivered to its end              *)
(***************************************************************************)
\* r.iter_lines was exhausted or gen stopped on its own: no upstream read
\* error and no disconnect
UpstreamDelivered ==
    /\ received # <<>>
    /\ \/ pc = "finished"
       \/ pc = "raised" /\ exc # "upstream"
\* what gen yielded, the synthesized tail event left out
NonTail == SelectSeq(out, LAMBDA item : item.src # "tail")

(***************************************************************************)
(* C25 (as claimed): when the last upstream line is not a parseable event  *)
(* with done=true and done_reason="length", the output is exactly the      *)
(* upstream lines in order, each unchanged, and nothing is synthesized.    *)
(***************************************************************************)
C25_Claimed ==
    (UpstreamDelivered /\ ~is_length_terminal(LastReceived)) =>
        out = [i \in 1..Len(received) |-> Emit("forward", received[i])]

(***************************************************************************)
(* C26 (as claimed): when the upstream stream ends normally every line     *)
(* received has been emitted exactly once, unchanged or as the repaired    *)
(* terminal event, whatever the lines contain.                             *)
(***************************************************************************)
C26_Claimed ==
    UpstreamDelivered =>
        /\ Len(NonTail) = Len(received)
        /\ \A i \in 1..Len(NonTail) :
              \/ NonTail[i] = Emit("forward", received[i])
              \/ /\ i = Len(received)
                 /\ is_length_terminal(received[i])
                 /\ NonTail[i].src = "final"

(***************************************************************************)
(* C27 (as claimed): when the right-trimmed text holds a fenced-code       *)
(* marker or a blank-line break, trim_to_boundary returns the text before  *)
(* the first occurrence of either (right-trimmed), which holds no marker;  *)
(* when that cut leaves nothing it returns the whole text.                 *)
(***************************************************************************)
FirstMarker(t) ==
    Min({i \in {find(t, FENCE), find(t, BLANKLINE)} : i # -1})

C27_Claimed ==
    (Len(applied) >= 1 /\ HasMarker(rstrip(fin_text))) =>
        LET t == rstrip(fin_text)
            cut == rstrip(prefix(t, FirstMarker(t)))
        IN  /\ applied[1] = IF cut = <<>> THEN t ELSE cut
            /\ cut # <<>> => ~HasMarker(applied[1])

(***************************************************************************)
(* finish_short_text and apply_length_cutoff_finisher as functions: each   *)
(* is called on an input and called again on its own result.               *)
(***************************************************************************)
\* texts with a blank-line break or a fence after other text
LongFinTexts ==
    { <<".", "a", "\n", "\n", "a">>,
      <<"a", ".", " ", "a", "\n", "\n", "a">>,
      <<"a", "\n", "\n", "b">> \o FENCE,
      <<"a", ".", " ", "b", ".", " ", "c">>,
      <<"a", "a", "a", "a", "a", "a">> }
RepeatTexts == FinTexts \cup LongFinTexts

\* plans compute_trim_config can hand over: no base budget; a ceiling of 3
\* characters; the client's num_predict -1 as base; a ceiling that rounds
\* down to 0; the short preset with a tail allowance
RepeatPlans ==
    { [present |-> TRUE, sentences |-> 2, base_tokens |-> Null, tail_tokens |-> 0,
       chars_per_token10 |-> 40],
      [present |-> TRUE, sentences |-> 1, base_tokens |-> Int_(1), tail_tokens |-> 1,
       chars_per_token10 |-> 15],
      [present |-> TRUE, sentences |-> 2, base_tokens |-> Int_(-1), tail_tokens |-> 0,
       chars_per_token10 |-> 40],
      [present |-> TRUE, sentences |-> 2, base_tokens |-> Int_(1), tail_tokens |-> 0,
       chars_per_token10 |-> 5],
      [present |-> TRUE, sentences |-> 2, base_tokens |-> Int_(160), tail_tokens |-> 32,
       chars_per_token10 |-> 40] }

\* finishers.py 52-75, one call; the second call takes the first call's result
CallFinishShort ==
    /\ fpc = "idle"
    /\ Len(applied) < 2
    /\ applied' = Append(applied,
                         finish_short_text(IF applied = <<>> THEN fin_text
                                           ELSE applied[Len(applied)], fin_config))
    /\ UNCHANGED <<fpc, fin_text, payload, fin_config, modified, r_content, payload_bytes>>

\* finishers.py 103-134, one call on the payload, which it changes in place;
\* payload_bytes keeps what each call returned and left behind
CallLengthCutoff ==
    /\ fpc = "idle"
    /\ Len(payload_bytes) < 2
    /\ payload' = apply_length_cutoff_finisher(payload).payload
    /\ payload_bytes' = Append(payload_bytes,
                                [changed |-> apply_length_cutoff_finisher(payload).changed,
                                 payload |-> apply_length_cutoff_finisher(payload).payload])
    /\ UNCHANGED <<fpc, fin_text, applied, fin_config, modified, r_content>>

InitRepeat ==
    /\ StreamIdle
    /\ ReqIdle
    /\ ConcIdle
    /\ fpc = "idle"
    /\ fin_text \in RepeatTexts
    /\ applied = <<>>
    /\ fin_config \in RepeatPlans
    /\ modified = FALSE
    /\ r_content \in {[dict |-> TRUE, response |-> fin_text, content |-> c,
                          done_reason |-> d] :
                            c \in {Absent, fin_text}, d \in {"stop", "length"}}
    /\ payload = r_content
    /\ payload_bytes = <<>>

NextRepeat ==
    \/ (CallFinishShort /\ UNCHANGED <<streamVars, reqVars, concVars>>)
    \/ (CallLengthCutoff /\ UNCHANGED <<streamVars, reqVars, concVars>>)

SpecRepeat == InitRepeat /\ [][NextRepeat]_vars

\* the character ceiling of a plan: floor((base + tail) * chars_per_token)
CeilingOf(plan) ==
    ((plan.base_tokens.v + plan.tail_tokens) * plan.chars_per_token10) \div 10

(***************************************************************************)
(* C28 (as claimed): when the plan's base token budget is set, the text    *)
(* finish_short_text returns for a non-blank input is at most              *)
(* floor((base_tokens + tail_tokens) * chars_per_token) characters long.   *)
(***************************************************************************)
C28_Claimed ==
    (Len(applied) >= 1 /\ fin_config.base_tokens.k = "int" /\ strip(fin_text) # <<>>) =>
        Len(applied[1]) <= CeilingOf(fin_config)

(***************************************************************************)
(* C28 (amended): when the base token budget is positive and the ceiling   *)
(* floor((base_tokens + tail_tokens) * chars_per_token) is at least 1, the *)
(* text returned for a non-blank input is at most that many characters     *)
(* long; otherwise no ceiling applies and the text is never longer than    *)
(* the stripped input.                                                     *)
(***************************************************************************)
C28_Bounded ==
    (Len(applied) >= 1 /\ fin_config.base_tokens.k = "int" /\ strip(fin_text) # <<>>) =>
        /\ (fin_config.base_tokens.v > 0 /\ CeilingOf(fin_config) >= 1) =>
               Len(applied[1]) <= CeilingOf(fin_config)
        /\ Len(applied[1]) <= Len(strip(fin_text))

\* a ceiling of 3 characters cuts "a. a" inside its second sentence; the
\* right-trimmed first sentence is returned
C28_Witness ==
    /\ Len(applied) >= 1
    /\ fin_config.base_tokens = Int_(1)
    /\ fin_config.tail_tokens = 1
    /\ CeilingOf(fin_config) = 3
    /\ fin_text = <<"a", ".", " ", "a">>
    /\ applied[1] = <<"a", ".">>

(***************************************************************************)
(* C29 (as claimed): re-applying a finisher to its own output changes      *)
(* nothing: the second finish_short_text returns what the first returned,  *)
(* and the second apply_length_cutoff_finisher returns false and leaves    *)
(* the payload as the first left it.                                       *)
(***************************************************************************)
C29_Claimed ==
    /\ Len(applied) = 2 => applied[2] = applied[1]
    /\ Len(payload_bytes) = 2 =>
          /\ ~payload_bytes[2].changed
          /\ payload_bytes[2].payload = payload_bytes[1].payload

(***************************************************************************)
(* passthrough_request (proxy.py 221-241): every other path is answered    *)
(* through stream_upstream, so the upstream body goes through gen line by  *)
(* line.  r_content is the upstream response body, a sequence of bytes.    *)
(* A JSON text in the body is one item: the value json.loads gives for it, *)
(* and whether its bytes are exactly those json.dumps writes for that      *)
(* value.                                                                  *)
(***************************************************************************)
MaxBody == 3

Byte(c) == [b |-> c, v |-> NoLine, dumps |-> FALSE]
JsonText(value, as_dumps) == [b |-> "json", v |-> value, dumps |-> as_dumps]
CR == Byte("\r")
LF == Byte("\n")

\* a byte that is no JSON, the line terminators, an event, a length
\* terminal event, the same with an empty fragment and formatted as
\* json.dumps formats it, and a JSON array
BodyBytes ==
    { Byte("x"), CR, LF,
      JsonText(Obj(<<"a">>, FALSE, "", Absent, ""), FALSE),
      JsonText(Obj(<<"a">>, TRUE, "length", Absent, ""), FALSE),
      JsonText(Obj(<<>>, TRUE, "length", Absent, ""), TRUE),
      JsonText(NonDictLine("[1]"), FALSE) }

RECURSIVE BodiesOfLen(_)
BodiesOfLen(n) ==
    IF n = 0 THEN {<<>>}
    ELSE {Append(t, c) : t \in BodiesOfLen(n - 1), c \in BodyBytes}

Bodies == UNION {BodiesOfLen(n) : n \in 0..MaxBody}

\* bytes.splitlines(): lines end at \n, \r or \r\n; the terminators are
\* dropped and a terminator at the very end opens no further line
RECURSIVE splitlines(_)
splitlines(content) ==
    LET ends == {i \in 1..Len(content) : content[i] \in {CR, LF}}
        i == Min(ends)
        j == IF content[i] = CR /\ i < Len(content) /\ content[i + 1] = LF
             THEN i + 1 ELSE i
    IN  IF content = <<>> THEN <<>>
        ELSE IF ends = {} THEN <<content>>
        ELSE <<SubSeq(content, 1, i - 1)>> \o splitlines(SubSeq(content, j + 1, Len(content)))

\* r.iter_lines(decode_unicode=False) on a body read in one chunk
iter_lines(content) == splitlines(content)

\* json.loads(raw_line) (proxy.py 60-63): a line that is exactly one JSON
\* text gives its value, anything else raises
line_of(raw) ==
    IF Len(raw) = 1 /\ raw[1].b = "json" THEN [raw[1].v EXCEPT !.raw = raw]
    ELSE BadLine(raw)

\* json.dumps(chunk) (proxy.py 100, 109): the bytes json.dumps writes
json_dumps(chunk) == JsonText([chunk EXCEPT !.raw = ""], TRUE)

\* the bytes of one yielded item: raw_line + b"\n" (proxy.py 57), or
\* (json.dumps(chunk) + "\n").encode("utf-8") (proxy.py 100, 109)
bytes_of(item) ==
    IF item.src = "forward" THEN item.line.raw \o <<LF>>
    ELSE <<json_dumps(item.line), LF>>

RECURSIVE body_of(_)
body_of(items) ==
    IF items = <<>> THEN <<>> ELSE bytes_of(Head(items)) \o body_of(Tail(items))

\* the bytes the client has been sent
ResponseBody == body_of(out)

\* proxy.py 221-241: headers, params and body are handed to stream_upstream
PassthroughRequest == StreamUpstream

\* proxy.py 50-58 on the next line of the upstream body
BodyLine ==
    /\ pc = "iter"
    /\ Len(received) < Len(iter_lines(r_content))
    /\ Deliver(line_of(iter_lines(r_content)[Len(received) + 1]))

\* proxy.py 70-112: the upstream body is exhausted
BodyEnd ==
    /\ Len(received) = Len(iter_lines(r_content))
    /\ IterEnd

InitPass ==
    /\ StreamIdle
    /\ ReqIdle
    /\ ConcIdle
    /\ fpc = "idle"
    /\ fin_text = <<>>
    /\ applied = <<>>
    /\ payload = <<>>
    /\ fin_config = <<>>
    /\ modified = FALSE
    /\ r_content \in Bodies
    /\ payload_bytes = <<>>

NextPass ==
    \/ (PassthroughRequest /\ UNCHANGED <<reqVars, finVars, concVars>>)
    \/ (Start /\ UNCHANGED <<reqVars, finVars, concVars>>)
    \/ (BodyLine /\ UNCHANGED <<reqVars, finVars, concVars>>)
    \/ (Resume55 /\ UNCHANGED <<reqVars, finVars, concVars>>)
    \/ (BodyEnd /\ UNCHANGED <<reqVars, finVars, concVars>>)
    \/ (Resume100 /\ UNCHANGED <<reqVars, finVars, concVars>>)
    \/ (ResumeLast /\ UNCHANGED <<reqVars, finVars, concVars>>)
    \/ (Disconnect /\ UNCHANGED <<reqVars, finVars, concVars>>)

SpecPass == InitPass /\ [][NextPass]_vars

(***************************************************************************)
(* C30 (as claimed): for a passthrough request the bytes returned to the   *)
(* client are the bytes of the upstream response body, whatever the body   *)
(* is: nothing is added, removed or rewritten.                             *)
(***************************************************************************)
C30_Claimed ==
    pc \in {"finished", "raised"} => ResponseBody = r_content

====
